---------------------------- MODULE Spec2Model ----------------------------
(***************************************************************************)
(* Model of the regolt client library (github.com/DarpHome/regolt):        *)
(*   - the keyed cache engine          (src/cache.go,  Cache1 / Cache2)    *)
(*   - the event dispatch bus          (src/events.go, EventController)    *)
(*   - the event stream client         (src/socket.go, Socket)             *)
(* Each part has its own specification over the same variables:            *)
(*   SpecCache1, SpecCache2  drive one cache container with every call     *)
(*   SpecSocket              drives the stream client through the life of  *)
(*                           its connections: Open, Close, reconnects      *)
(*   SpecDispatch            drives the dispatch of frames on a connection *)
(***************************************************************************)
EXTENDS Integers, Sequences, FiniteSets, TLC

(***************************************************************************)
(* Bounds of the model (not program constants).                            *)
(***************************************************************************)
NumKeys == 2
MaxCap == 2

\* const InfiniteCache int = -1
InfiniteCache == -1

\* entity ids, parent ids (two parent groups) and entity contents
Keys == 1..NumKeys
Parents == {1, 2}
Vals == {1, 2}
\* capacities a configuration may carry: unlimited, unconfigured, bounded
Caps == {InfiniteCache} \cup (0..MaxCap)
\* Cache1Checker / Cache2Checker: nil, or a predicate on the entity
Checkers == {"nil", "denyKey1"}

VARIABLES
    c1,       \* Cache1.Cache : map[ULID]*T
    cfg1,     \* Cache1.{MaxSize, DontInsertIfOverflow, Checker}
    c2,       \* Cache2.Cache : map[ULID]map[ULID]*T
    total,    \* Cache2.total
    cfg2,     \* Cache2.{MaxSize1, MaxSize2, TotalMaxSize, DontInsertIfOverflow, Checker}
    lastOp,   \* the last cache call and what it did (history, for the checks)
    Cache     \* Socket.Cache : *GenericCache, the containers it holds

cacheVars == <<c1, cfg1, c2, total, cfg2, lastOp, Cache>>

(***************************************************************************)
(* Go maps as functions with a finite domain.                              *)
(***************************************************************************)
EmptyMap == <<>>
Len0(m) == Cardinality(DOMAIN m)
Remove(m, k) == [x \in (DOMAIN m) \ {k} |-> m[x]]
Put(m, k, v) == [x \in (DOMAIN m) \cup {k} |-> IF x = k THEN v ELSE m[x]]

\* the admission predicate of a configured Checker
CanCache(checker, e) == IF checker = "denyKey1" THEN e.key # 1 ELSE TRUE

Outcome1(ok, cache, ev) == [ok |-> ok, cache |-> cache, ev |-> ev]

(***************************************************************************)
(* Cache1 (src/cache.go:16-70)                                             *)
(***************************************************************************)
\* mutant: the overflow branch forgets to evict
Cache1_resize_NoEvict(cfg, cache, e) ==
    IF cfg.MaxSize = 0 THEN {Outcome1(FALSE, cache, "rejected")}
    ELSE IF cfg.MaxSize > 0 THEN
        {Outcome1(TRUE, Put(cache, e.key, e.val), "none")}
    ELSE {Outcome1(TRUE, cache, "none")}

\* mutant: an unconfigured cache is treated like an unlimited one
Cache1_resize_ZeroUnlimited(cfg, cache, e) ==
    IF cfg.MaxSize > 0 /\ Len0(cache) >= cfg.MaxSize
    THEN {Outcome1(FALSE, cache, "rejected")}
    ELSE {Outcome1(TRUE, cache, "none")}

\* func (c *Cache1[T]) resize(e *T) bool : the set of possible outcomes
\* (the evicted key is whichever key the map iteration yields first)
Cache1_resize(cfg, cache, e) ==
    IF cfg.MaxSize = 0 THEN {Outcome1(FALSE, cache, "rejected")}
    ELSE IF cfg.MaxSize > 0 THEN
        IF cfg.Checker # "nil" /\ ~CanCache(cfg.Checker, e)
        THEN {Outcome1(FALSE, cache, "rejected")}
        ELSE IF Len0(cache) >= cfg.MaxSize
             THEN IF cfg.DontInsertIfOverflow
                  THEN {Outcome1(FALSE, cache, "rejected")}
                  ELSE {Outcome1(TRUE, Put(Remove(cache, k), e.key, e.val), "entry")
                          : k \in DOMAIN cache}
             ELSE {Outcome1(TRUE, Put(cache, e.key, e.val), "none")}
    ELSE {Outcome1(TRUE, cache, "none")}

\* func (c *Cache1[T]) Set(v *T) : the possible resulting outcomes
Cache1_SetResult(cfg, cache, e) ==
    { IF r.ok THEN Outcome1(TRUE, Put(r.cache, e.key, e.val), r.ev) ELSE r
        : r \in Cache1_resize(cfg, cache, e) }

\* func (c *Cache1[T]) Get(id ULID) *T  (0 stands for nil)
Cache1_Get(cache, id) == IF id \in DOMAIN cache THEN cache[id] ELSE 0

\* func (c *Cache1[T]) Size() int
Cache1_Size(cache) == Len0(cache)

\* func (c *Cache1[T]) Del(id ULID)
Cache1_DelResult(cache, id) == Remove(cache, id)

\* x, ok := c.Cache[id] of PartiallyUpdate: whether the updater is invoked
Cache1_PartiallyUpdateOk(cache, id) == id \in DOMAIN cache

\* mutant: PartiallyUpdate creates the entry it does not find
Cache1_PartiallyUpdateResult_Creates(cache, id, v) == Put(cache, id, v)

\* func (c *Cache1[T]) PartiallyUpdate(id ULID, updater func(m *T));
\* the updater overwrites the entity's content with v
Cache1_PartiallyUpdateResult(cache, id, v) ==
    IF Cache1_PartiallyUpdateOk(cache, id) THEN [cache EXCEPT ![id] = v] ELSE cache

Cache1_Set(k, v) ==
    \E r \in Cache1_SetResult(cfg1, c1, [key |-> k, val |-> v]) :
        /\ c1' = r.cache
        /\ lastOp' = [op |-> "Set1", ev |-> r.ev]
        /\ UNCHANGED <<cfg1, c2, total, cfg2, Cache>>

Cache1_Del(k) ==
    /\ c1' = Cache1_DelResult(c1, k)
    /\ lastOp' = [op |-> "Del1", ev |-> "none"]
    /\ UNCHANGED <<cfg1, c2, total, cfg2, Cache>>

Cache1_PartiallyUpdate(k, v) ==
    /\ c1' = Cache1_PartiallyUpdateResult(c1, k, v)
    /\ lastOp' = [op |-> "Upd1",
                  ev |-> IF Cache1_PartiallyUpdateOk(c1, k) THEN "updated" ELSE "none"]
    /\ UNCHANGED <<cfg1, c2, total, cfg2, Cache>>


(***************************************************************************)
(* Cache2 (src/cache.go:82-196)                                            *)
(***************************************************************************)
St2(cache, tot) == [cache |-> cache, total |-> tot]
Outcome2(ok, st, ev) == [ok |-> ok, cache |-> st.cache, total |-> st.total, ev |-> ev]

\* mutant: del forgets the aggregate count
Cache2_del_NoCount(st, parent, id) ==
    IF parent \in DOMAIN st.cache /\ id \in DOMAIN st.cache[parent]
    THEN St2([st.cache EXCEPT ![parent] = Remove(@, id)], st.total)
    ELSE st

\* func (c *Cache2[T]) del(parent, id ULID)
\* (deleting from the nil map of an absent parent is a no-op)
Cache2_del(st, parent, id) ==
    IF parent \in DOMAIN st.cache /\ id \in DOMAIN st.cache[parent]
    THEN St2([st.cache EXCEPT ![parent] = Remove(@, id)], st.total - 1)
    ELSE st

\* func (c *Cache2[T]) ins(parent ULID, e *T)
Cache2_ins(st, parent, e) ==
    IF parent \notin DOMAIN st.cache
    THEN St2(Put(st.cache, parent, Put(EmptyMap, e.key, e.val)), st.total + 1)
    ELSE St2([st.cache EXCEPT ![parent] = Put(@, e.key, e.val)],
             IF e.key \in DOMAIN st.cache[parent] THEN st.total ELSE st.total + 1)

\* the nested loop of resize (cache.go:128-133): the inner break leaves only
\* the inner loop, so one entry of every non-empty parent group is deleted
EvictOneOfEach(st) ==
    LET ne == {p \in DOMAIN st.cache : DOMAIN st.cache[p] # {}}
        picks == [ne -> Keys]
    IN  { St2([p \in DOMAIN st.cache |->
                  IF p \in ne THEN Remove(st.cache[p], f[p]) ELSE st.cache[p]],
              st.total - Cardinality(ne))
            : f \in {g \in picks : \A p \in ne : g[p] \in DOMAIN st.cache[p]} }

\* mutant: the max-groups cap evicts nothing
ResizeCaps_NoGroupEvict(cfg, st, parent) ==
    LET k == parent \in DOMAIN st.cache
        o == IF k THEN st.cache[parent] ELSE EmptyMap
    IN  IF k /\ cfg.MaxSize2 # 0 /\ Len0(o) >= cfg.MaxSize2 /\ DOMAIN o # {}
        THEN {Outcome2(TRUE, Cache2_del(st, parent, x), "entry") : x \in DOMAIN o}
        ELSE {Outcome2(TRUE, st, "none")}

\* cache.go:135-149: the per-parent cap, then the max-groups cap
ResizeCaps(cfg, st, parent) ==
    LET k == parent \in DOMAIN st.cache
        o == IF k THEN st.cache[parent] ELSE EmptyMap
    IN  IF k /\ cfg.MaxSize2 # 0 /\ Len0(o) >= cfg.MaxSize2 /\ DOMAIN o # {}
        THEN {Outcome2(TRUE, Cache2_del(st, parent, x), "entry") : x \in DOMAIN o}
        ELSE IF cfg.MaxSize1 # 0 /\ Len0(st.cache) >= cfg.MaxSize1 /\ ~k
                /\ DOMAIN st.cache # {}
        THEN {Outcome2(TRUE, St2(Remove(st.cache, g), st.total - Len0(st.cache[g])), "group")
                : g \in DOMAIN st.cache}
        ELSE {Outcome2(TRUE, st, "none")}

\* mutant: the switch enters the capacity branch for a positive total cap too
Cache2_resize_TotalCap(cfg, st, parent, e) ==
    IF cfg.MaxSize1 = 0 /\ cfg.MaxSize2 = 0 /\ cfg.TotalMaxSize = 0
    THEN {Outcome2(FALSE, st, "rejected")}
    ELSE IF cfg.MaxSize1 = 0 /\ cfg.MaxSize2 = 0 /\ st.total = cfg.TotalMaxSize
         THEN UNION {ResizeCaps(cfg, s, parent) : s \in EvictOneOfEach(st)}
         ELSE ResizeCaps(cfg, st, parent)

\* mutant: the unconfigured case is not rejected
Cache2_resize_NoZeroCase(cfg, st, parent, e) ==
    {Outcome2(TRUE, st, "none")}

\* func (c *Cache2[T]) resize(parent ULID, e *T) bool : the possible outcomes
Cache2_resize(cfg, st, parent, e) ==
    IF cfg.MaxSize1 = 0 /\ cfg.MaxSize2 = 0 /\ cfg.TotalMaxSize = 0
    THEN {Outcome2(FALSE, st, "rejected")}
    ELSE IF cfg.TotalMaxSize < 0 \/ cfg.MaxSize1 > 0
    THEN IF cfg.Checker # "nil" /\ ~CanCache(cfg.Checker, e)
         THEN {Outcome2(FALSE, st, "rejected")}
         ELSE IF cfg.MaxSize1 = 0 /\ cfg.MaxSize2 = 0 /\ st.total = cfg.TotalMaxSize
              THEN IF cfg.DontInsertIfOverflow
                   THEN {Outcome2(FALSE, st, "rejected")}
                   ELSE UNION {ResizeCaps(cfg, s, parent) : s \in EvictOneOfEach(st)}
              ELSE ResizeCaps(cfg, st, parent)
    ELSE {Outcome2(TRUE, st, "none")}

\* func (c *Cache2[T]) Set(parent ULID, v *T)
Cache2_SetResult(cfg, st, parent, e) ==
    { IF r.ok
      THEN Outcome2(TRUE, Cache2_ins(St2(r.cache, r.total), parent, e), r.ev)
      ELSE r
        : r \in Cache2_resize(cfg, st, parent, e) }

\* func (c *Cache2[T]) Get(parent, id ULID) *T  (0 stands for nil)
Cache2_Get(cache, parent, id) ==
    IF parent \in DOMAIN cache /\ id \in DOMAIN cache[parent]
    THEN cache[parent][id] ELSE 0

\* mutant: DelGroup forgets the aggregate count
Cache2_DelGroupResult_KeepCount(st, parent) ==
    IF parent \in DOMAIN st.cache THEN St2(Remove(st.cache, parent), st.total) ELSE st

\* func (c *Cache2[T]) DelGroup(parent ULID)
Cache2_DelGroupResult(st, parent) ==
    IF parent \in DOMAIN st.cache
    THEN St2(Remove(st.cache, parent), st.total - Len0(st.cache[parent]))
    ELSE st

\* func (c *Cache2[T]) GroupsCount() int
Cache2_GroupsCount(cache) == Len0(cache)

\* func (c *Cache2[T]) Size() int
Cache2_Size(tot) == tot

\* the two ok of PartiallyUpdate: whether the updater is invoked
Cache2_PartiallyUpdateOk(cache, parent, id) ==
    parent \in DOMAIN cache /\ id \in DOMAIN cache[parent]

\* func (c *Cache2[T]) PartiallyUpdate(parent, id ULID, updater func(m *T))
Cache2_PartiallyUpdateResult(cache, parent, id, v) ==
    IF Cache2_PartiallyUpdateOk(cache, parent, id)
    THEN [cache EXCEPT ![parent][id] = v] ELSE cache

\* the entries reachable through Get
Reachable2(cache) == {<<p, k>> \in Parents \X Keys : Cache2_Get(cache, p, k) # 0}

Cache2_Set(p, k, v) ==
    \E r \in Cache2_SetResult(cfg2, St2(c2, total), p, [key |-> k, val |-> v]) :
        /\ c2' = r.cache
        /\ total' = r.total
        /\ lastOp' = [op |-> "Set2", ev |-> r.ev]
        /\ UNCHANGED <<cfg2, c1, cfg1, Cache>>

Cache2_Del(p, k) ==
    LET r == Cache2_del(St2(c2, total), p, k)
    IN  /\ c2' = r.cache
        /\ total' = r.total
        /\ lastOp' = [op |-> "Del2", ev |-> "none"]
        /\ UNCHANGED <<cfg2, c1, cfg1, Cache>>

Cache2_DelGroup(p) ==
    LET r == Cache2_DelGroupResult(St2(c2, total), p)
    IN  /\ c2' = r.cache
        /\ total' = r.total
        /\ lastOp' = [op |-> "DelGroup2", ev |-> IF p \in DOMAIN c2 THEN "group" ELSE "none"]
        /\ UNCHANGED <<cfg2, c1, cfg1, Cache>>

Cache2_PartiallyUpdate(p, k, v) ==
    /\ c2' = Cache2_PartiallyUpdateResult(c2, p, k, v)
    /\ lastOp' = [op |-> "Upd2",
                  ev |-> IF Cache2_PartiallyUpdateOk(c2, p, k) THEN "updated" ELSE "none"]
    /\ UNCHANGED <<cfg2, total, c1, cfg1, Cache>>

(***************************************************************************)
(* GenericCache (src/cache.go:198-251) and NewSocket (socket.go:834-879).  *)
(* A container is a pointer: isNil marks the nil pointer, and mapNil the   *)
(* nil map of a container whose init has not run.                          *)
(***************************************************************************)
\* the containers of GenericCache; Messages, Members and Roles are Cache2
Containers == {"Channels", "Emojis", "Messages", "Members", "Roles", "Servers", "Users",
               "Webhooks"}
IsCache2(k) == k \in {"Messages", "Members", "Roles"}

\* a field of GenericCache that was not set
NilCache == [isNil |-> TRUE]

\* &Cache1[T]{MaxSize: maxSize} and &Cache2[T]{TotalMaxSize: totalMaxSize}
NewCache1(maxSize) ==
    [isNil |-> FALSE, MaxSize |-> maxSize, DontInsertIfOverflow |-> FALSE, Checker |-> "nil",
     mapNil |-> TRUE, Cache |-> EmptyMap]
NewCache2(totalMaxSize) ==
    [isNil |-> FALSE, MaxSize1 |-> 0, MaxSize2 |-> 0, TotalMaxSize |-> totalMaxSize,
     DontInsertIfOverflow |-> FALSE, Checker |-> "nil", total |-> 0,
     mapNil |-> TRUE, Cache |-> EmptyMap]

\* func (c *Cache1[T]) init() and func (c *Cache2[T]) init()
Cache_init(c) == IF c.mapNil THEN [c EXCEPT !.mapNil = FALSE, !.Cache = EmptyMap] ELSE c

\* mutant: init creates and initialises every container
GenericCache_init_All(gc) ==
    [k \in Containers |->
        Cache_init(IF gc[k].isNil
                   THEN IF IsCache2(k) THEN NewCache2(0) ELSE NewCache1(0)
                   ELSE gc[k])]

\* func (gc *GenericCache) init(): the nil containers are created, Webhooks
\* excepted, and the maps are made, that of Webhooks excepted
GenericCache_init(gc) ==
    [k \in Containers |->
        IF k = "Webhooks" THEN gc[k]
        ELSE Cache_init(IF gc[k].isNil
                        THEN IF IsCache2(k) THEN NewCache2(0) ELSE NewCache1(0)
                        ELSE gc[k])]

\* &GenericCache{}
GenericCacheZero == [k \in Containers |-> NilCache]

\* a SocketConfig with no Cache, and one with the given Cache
NoCacheConfig == [hasCache |-> FALSE, Cache |-> GenericCacheZero]
CacheConfig(gc) == [hasCache |-> TRUE, Cache |-> gc]

\* NewSocket(token, config): config.Cache, or &GenericCache{} when it is
\* nil, then socket.init()
NewSocketCache(config) ==
    GenericCache_init(IF config.hasCache THEN config.Cache ELSE GenericCacheZero)

(***************************************************************************)
(* The event stream client (src/socket.go) and the dispatch bus            *)
(* (src/events.go).                                                        *)
(*                                                                         *)
(* Execution contexts (goroutines) are the entries of thr:                 *)
(*   <<"U", 0>>  the caller of Open and Close                              *)
(*   <<"L", n>>  the n-th read loop   (go socket.listener())               *)
(*   <<"P", n>>  the n-th heartbeat   (go socket.pinger())                 *)
(*   <<"G", n>>  the n-th goroutine started by EmitAndCall                 *)
(* Each has a program position pc, the Emit it is iterating (em), the Open *)
(* call it is executing (open), a local (aux): the connection a read loop  *)
(* reads, the ticker a heartbeat waits on; and the sub-frames of a Bulk    *)
(* frame a read loop has still to process (bulk).                          *)
(***************************************************************************)
\* bounds: Dial calls, frames the server sends unprompted, ticker ticks
MaxDials == 2
MaxFrames == 2
MaxTicks == 1

VARIABLES
    closed,        \* Socket.closed
    Connection,    \* Socket.Connection: index into conns, 0 is nil
    lastPingReq,   \* Socket.lastPingReq, 0 is the zero time
    lastPingRes,   \* Socket.lastPingRes, 0 is the zero time
    now,           \* the clock read by time.Now()
    tickers,       \* the tickers made by Listen: TRUE once stopped; Socket.ticker is the last
    ls,            \* EventController.ls of each channel: id -> callback
    ecid,          \* EventController.id of each channel
    conns,         \* the transport connections dialled so far, as the server end sees them
    thr,           \* the goroutines
    opens,         \* the calls of Socket.Open, in call order
    gors,          \* what each EmitAndCall goroutine carries
    hist,          \* history: what the user did and what subscribers observed
    cnt            \* how much of each bound is used

sockVars == <<closed, Connection, lastPingReq, lastPingRes, now, tickers, ls, ecid,
              conns, thr, opens, gors, hist, cnt>>
vars == <<cacheVars, sockVars>>

\* the channels of Events (socket.go:512-558) the model follows
Channels == {"Ready", "RevoltError", "Error", "Message", "MessageUpdate", "MessageDelete"}
\* ids of the modelled entities: the channel c1 and its message m1, the user u1,
\* the content of Message{m1} and the content MessageUpdate{m1} patches in
ChanC1 == 1
MsgM1 == 1
UserU1 == 1
ContentHi == 1
ContentBye == 2

User == <<"U", 0>>
NoEm == [ch |-> "none", val |-> "none", vis |-> {}, top |-> 0, ret |-> "none", cur |-> 0, to |-> 0]
NewThread(pc, aux) ==
    [pc |-> pc, em |-> NoEm, open |-> 0, aux |-> aux, note |-> "none", bulk |-> <<>>]
Count(kind) == Cardinality({t \in DOMAIN thr : t[1] = kind})

\* type SocketError struct{ ErrorID string }
SocketError(errorID) ==
    IF errorID = "InvalidSession" THEN "SocketError_InvalidSession"
    ELSE "SocketError_LabelMe"

(***************************************************************************)
(* EventController (src/events.go:3-64)                                    *)
(***************************************************************************)
\* mutant: the new id is one more than the number of registrations
ListenResult_CountId(lsv, idv, ch, cb) ==
    [ls |-> [lsv EXCEPT ![ch] = Put(@, Len0(@) + 1, cb)],
     ecid |-> [idv EXCEPT ![ch] = @ + 1]]

\* func (ec *EventController[T]) Listen(f func(T)) *Subscription[T]
\* the registrations after Listen(cb) on channel ch; the new id is ecid[ch] + 1
ListenResult(lsv, idv, ch, cb) ==
    [ls |-> [lsv EXCEPT ![ch] = Put(@, idv[ch] + 1, cb)],
     ecid |-> [idv EXCEPT ![ch] = @ + 1]]

\* func (s *Subscription[T]) Delete()
DeleteResult(lsv, ch, i) == [lsv EXCEPT ![ch] = Remove(@, i)]

\* mutant: the range produces entries it has produced already
EmitRest_Again(e) == DOMAIN ls[e.ch]

\* the ids a range over ec.ls has still to produce for the Emit e: entries
\* present when the range began must be produced unless deleted since,
\* entries created during the range may be produced or skipped
EmitRest(e) == (DOMAIN ls[e.ch]) \ e.vis
EmitMust(e) == {i \in EmitRest(e) : i <= e.top}

\* func (ec *EventController[T]) Emit(t T): the caller's state on entry.
\* An empty registration map ends the range at once.
CallEmit(rec, ch, val, ret) ==
    IF DOMAIN ls[ch] = {}
    THEN [rec EXCEPT !.pc = ret, !.em = NoEm]
    ELSE [rec EXCEPT !.pc = "emit",
                     !.em = [ch |-> ch, val |-> val, vis |-> {}, top |-> ecid[ch],
                             ret |-> ret, cur |-> 0, to |-> 0]]

\* the iterating goroutine after callback i returned
Visited(rec, i) ==
    LET vis2 == rec.em.vis \cup {i}
    IN  IF (DOMAIN ls[rec.em.ch]) \ vis2 = {}
        THEN [rec EXCEPT !.pc = rec.em.ret, !.em = NoEm]
        ELSE [rec EXCEPT !.pc = "emit", !.em.vis = vis2, !.em.cur = 0, !.em.to = 0]

\* mutant: the goroutine runs the follow-up first, then the subscribers
EmitAndCallBody_FollowFirst == <<"follow", "emit">>

\* the goroutine of EmitAndCall (events.go:53-56): x.Emit(y), then z(y)
EmitAndCallBody == <<"emit", "follow">>

(***************************************************************************)
(* The follow-ups process hands to EmitAndCall (socket.go:1106-1153).      *)
(***************************************************************************)
Caches(a, b, tot) == [c1 |-> a, c2 |-> b, total |-> tot]

\* the cache after the follow-up of a frame ran (one result per eviction choice)
FollowUp(frame) ==
    IF frame = "Ready"
    THEN {Caches(r.cache, c2, total)
            : r \in Cache1_SetResult(cfg1, c1, [key |-> UserU1, val |-> ContentHi])}
    ELSE IF frame = "Message"
    THEN {Caches(c1, r.cache, r.total)
            : r \in Cache2_SetResult(cfg2, St2(c2, total), ChanC1,
                                     [key |-> MsgM1, val |-> ContentHi])}
    ELSE IF frame = "MessageUpdate"
    THEN {Caches(c1, Cache2_PartiallyUpdateResult(c2, ChanC1, MsgM1, ContentBye), total)}
    ELSE IF frame = "MessageDelete"
    THEN LET r == Cache2_del(St2(c2, total), ChanC1, MsgM1)
         IN  {Caches(c1, r.cache, r.total)}
    ELSE {Caches(c1, c2, total)}

\* the channel a typed frame is published on
ChannelOf(frame) == frame


(***************************************************************************)
(* Socket.Open (socket.go:1010-1042) and Socket.Connect (socket.go:929-954)*)
(***************************************************************************)
NewConn == [inbox |-> <<>>, alive |-> TRUE, authed |-> FALSE, pings |-> 0]

\* an Open call: who runs it and where it returns to, where it is, the
\* connection it dialled, its three subscriptions and its result; and, as
\* history, whether a Ready was published to its Ready listener while it
\* waited in its select, so after the authentication frame was sent (rdy),
\* the errors published to its error listeners in that wait (errs), whether the
\* user had called Close before it began (late), the read loop it started
\* (lis), whether an earlier Open had resolved to nil when it began (up)
NewOpen(by, ret, kind) ==
    [by |-> by, ret |-> ret, kind |-> kind, pc |-> "connect", conn |-> 0,
     subs |-> [Ready |-> 0, RevoltError |-> 0, Error |-> 0], res |-> "pending",
     rdy |-> FALSE, errs |-> {}, late |-> hist.userClosed, lis |-> 0,
     up |-> \E q \in DOMAIN opens : opens[q].res = "nil"]

\* the select of Open (socket.go:1035-1041) on what a listener received:
\* err = <-errorEvent, or ready
SelectResult(ch, val) ==
    IF ch = "Ready" THEN "nil"
    ELSE IF ch = "RevoltError" THEN SocketError(val)
    ELSE val

\* mutant: the Ready listener is never unregistered
OpenDeferred_Leak(subs) ==
    {<<"RevoltError", subs.RevoltError>>, <<"Error", subs.Error>>}

\* the deferred sub1.Delete(), sub2.Delete(), sub3.Delete() of Open
OpenDeferred(subs) ==
    {<<"Ready", subs.Ready>>, <<"RevoltError", subs.RevoltError>>, <<"Error", subs.Error>>}

DeleteAll(lsv, S) ==
    [ch \in Channels |->
        [i \in (DOMAIN lsv[ch]) \ {p[2] : p \in {q \in S : q[1] = ch}} |-> lsv[ch][i]]]

\* a goroutine begins a call of Open
CallOpen(t, ret, kind) ==
    /\ opens' = Append(opens, NewOpen(t, ret, kind))
    /\ thr' = [thr EXCEPT ![t].pc = "open", ![t].open = Len(opens) + 1]

Running(o) == thr[opens[o].by].pc = "open" /\ thr[opens[o].by].open = o

\* socket.Connect() and the three Listen calls that follow it
OpenConnect(o) ==
    /\ Running(o)
    /\ opens[o].pc = "connect"
    /\ cnt.dials < MaxDials
    /\ cnt' = [cnt EXCEPT !.dials = @ + 1]
    /\ \/ /\ opens' = [opens EXCEPT ![o].pc = "returned", ![o].res = "E_dial"]
          /\ thr' = [thr EXCEPT ![opens[o].by].pc = opens[o].ret]
          /\ UNCHANGED <<conns, Connection, ls, ecid>>
       \/ /\ conns' = Append(conns, NewConn)
          /\ Connection' = Len(conns) + 1
          /\ LET r1 == ListenResult(ls, ecid, "Ready", [kind |-> "open", open |-> o])
                 r2 == ListenResult(r1.ls, r1.ecid, "RevoltError", [kind |-> "open", open |-> o])
                 r3 == ListenResult(r2.ls, r2.ecid, "Error", [kind |-> "open", open |-> o])
             IN  /\ ls' = r3.ls
                 /\ ecid' = r3.ecid
                 /\ opens' = [opens EXCEPT ![o].pc = "auth", ![o].conn = Len(conns) + 1,
                                           ![o].subs = [Ready |-> r3.ecid["Ready"],
                                                        RevoltError |-> r3.ecid["RevoltError"],
                                                        Error |-> r3.ecid["Error"]]]
          /\ UNCHANGED thr
    /\ UNCHANGED <<closed, lastPingReq, lastPingRes, now, tickers, gors, hist, cacheVars>>

\* the senders blocked on readyEvent / errorEvent of Open o
Waiting(o) == {s \in DOMAIN thr : thr[s].pc = "send" /\ thr[s].em.to = o}

\* socket.Authenticate(), socket.Listen() and the entry into the select:
\* a failed write returns through the deferred Deletes; otherwise the server
\* answers (or stays silent), the ticker, the heartbeat and the read loop are
\* started, and the select takes one of the senders already blocked on its
\* channels or parks
OpenAuth(o) ==
    /\ Running(o)
    /\ opens[o].pc = "auth"
    /\ \/ /\ ls' = DeleteAll(ls, OpenDeferred(opens[o].subs))
          /\ opens' = [opens EXCEPT ![o].pc = "returned", ![o].res = "E_auth"]
          /\ thr' = [thr EXCEPT ![opens[o].by].pc = opens[o].ret]
          /\ UNCHANGED <<conns, tickers>>
       \/ /\ \E resp \in {"none", "Ready", "Error", "NotFound"} :
                conns' = [conns EXCEPT ![Connection].authed = TRUE,
                                       ![Connection].inbox =
                                            IF resp = "none" THEN @ ELSE Append(@, resp)]
          /\ tickers' = Append(tickers, FALSE)
          /\ LET p == <<"P", Count("P") + 1>>
                 l == <<"L", Count("L") + 1>>
                 born == (p :> NewThread("select", Len(tickers) + 1))
                            @@ (l :> NewThread("top", 0))
             IN  \/ /\ Waiting(o) = {}
                    /\ opens' = [opens EXCEPT ![o].pc = "select", ![o].lis = l[2]]
                    /\ thr' = thr @@ born
                 \/ \E s \in Waiting(o) :
                    /\ opens' = [opens EXCEPT ![o].pc = "defer", ![o].lis = l[2],
                                    ![o].res = SelectResult(thr[s].em.ch, thr[s].em.val)]
                    /\ thr' = [thr EXCEPT ![s] = Visited(thr[s], thr[s].em.cur)] @@ born
          /\ UNCHANGED ls
    /\ UNCHANGED <<closed, Connection, lastPingReq, lastPingRes, now, ecid, gors, hist,
                   cnt, cacheVars>>

\* the deferred Deletes and the return of a resolved Open
OpenDefer(o) ==
    /\ Running(o)
    /\ opens[o].pc = "defer"
    /\ ls' = DeleteAll(ls, OpenDeferred(opens[o].subs))
    /\ opens' = [opens EXCEPT ![o].pc = "returned"]
    /\ thr' = [thr EXCEPT ![opens[o].by].pc = opens[o].ret]
    /\ UNCHANGED <<closed, Connection, lastPingReq, lastPingRes, now, tickers, ecid, conns,
                   gors, hist, cnt, cacheVars>>

(***************************************************************************)
(* EventController.Emit, one callback at a time (events.go:33-38).         *)
(***************************************************************************)
\* the range is over
EmitDone(t) ==
    /\ thr[t].pc = "emit"
    /\ EmitMust(thr[t].em) = {}
    /\ thr' = [thr EXCEPT ![t].pc = thr[t].em.ret, ![t].em = NoEm]
    /\ UNCHANGED <<closed, Connection, lastPingReq, lastPingRes, now, tickers, ls, ecid,
                   conns, opens, gors, hist, cnt, cacheVars>>

\* the callback of the user's OnMessageUpdate subscription (as in
\* examples/pingpong/main.go:128-133) reads the message from the cache
EmitUser(t, i) ==
    /\ thr[t].pc = "emit"
    /\ i \in EmitRest(thr[t].em)
    /\ ls[thr[t].em.ch][i].kind = "user"
    /\ hist' = [hist EXCEPT !.obs = @ \cup
                    {[seen |-> Cache2_Get(c2, ChanC1, MsgM1),
                      done |-> IF t[1] = "G" THEN gors[t[2]].fdone ELSE TRUE]}]
    /\ thr' = [thr EXCEPT ![t] = Visited(thr[t], i)]
    /\ UNCHANGED <<closed, Connection, lastPingReq, lastPingRes, now, tickers, ls, ecid,
                   conns, opens, gors, cnt, cacheVars>>

\* a callback registered by Open (socket.go:1017-1027) sends on readyEvent or
\* errorEvent: an Open parked in its select receives at once, otherwise the
\* sender blocks
EmitOpen(t, i) ==
    /\ thr[t].pc = "emit"
    /\ i \in EmitRest(thr[t].em)
    /\ ls[thr[t].em.ch][i].kind = "open"
    /\ LET o == ls[thr[t].em.ch][i].open
           ch == thr[t].em.ch
           v == SelectResult(ch, thr[t].em.val)
           sent == opens[o].pc = "select"
           h == [opens[o] EXCEPT !.rdy = @ \/ (sent /\ ch = "Ready"),
                                 !.errs = IF sent /\ ch # "Ready" /\ ~opens[o].rdy
                                          THEN @ \cup {<<ch, thr[t].em.val>>}
                                          ELSE @]
       IN  IF opens[o].pc = "select"
           THEN /\ opens' = [opens EXCEPT ![o] = [h EXCEPT !.pc = "defer", !.res = v]]
                /\ thr' = [thr EXCEPT ![t] = Visited(thr[t], i)]
           ELSE /\ opens' = [opens EXCEPT ![o] = h]
                /\ thr' = [thr EXCEPT ![t].pc = "send", ![t].em.cur = i, ![t].em.to = o]
    /\ UNCHANGED <<closed, Connection, lastPingReq, lastPingRes, now, tickers, ls, ecid,
                   conns, gors, hist, cnt, cacheVars>>

\* one step of the goroutine of EmitAndCall
GoStep(g) ==
    /\ g \in DOMAIN thr
    /\ thr[g].pc \in {"g1", "g2"}
    /\ LET k == IF thr[g].pc = "g1" THEN 1 ELSE 2
           next == IF k = 1 THEN "g2" ELSE "done"
       IN  IF EmitAndCallBody[k] = "emit"
           THEN /\ thr' = [thr EXCEPT ![g] = CallEmit(thr[g], gors[g[2]].ch, gors[g[2]].frame, next)]
                /\ UNCHANGED <<gors, c1, c2, total>>
           ELSE /\ \E r \in FollowUp(gors[g[2]].frame) :
                      /\ c1' = r.c1
                      /\ c2' = r.c2
                      /\ total' = r.total
                /\ gors' = [gors EXCEPT ![g[2]].fdone = TRUE]
                /\ thr' = [thr EXCEPT ![g].pc = next]
    /\ UNCHANGED <<closed, Connection, lastPingReq, lastPingRes, now, tickers, ls, ecid,
                   conns, opens, hist, cnt, cfg1, cfg2, lastOp, Cache>>

(***************************************************************************)
(* Socket.listener (socket.go:1638-1659), Socket.process                   *)
(* (socket.go:1064-1153) and the close handler (socket.go:935-951).        *)
(***************************************************************************)
\* the head of the loop: the closed check, then the read begins on the
\* connection the socket holds now
ListenerTop(l) ==
    /\ l \in DOMAIN thr /\ l[1] = "L"
    /\ thr[l].pc = "top"
    /\ thr' = [thr EXCEPT ![l] = IF closed THEN [@ EXCEPT !.pc = "done", !.note = "closed"]
                                 ELSE [@ EXCEPT !.pc = "read", !.aux = Connection]]
    /\ UNCHANGED <<closed, Connection, lastPingReq, lastPingRes, now, tickers, ls, ecid,
                   conns, opens, gors, hist, cnt, cacheVars>>

Reading(l, frames) ==
    /\ l \in DOMAIN thr /\ l[1] = "L"
    /\ thr[l].pc = "read"
    /\ conns[thr[l].aux].inbox # <<>>
    /\ Head(conns[thr[l].aux].inbox) \in frames
    /\ conns' = [conns EXCEPT ![thr[l].aux].inbox = Tail(@)]

\* ReadMessage returns a Ready, Message or MessageUpdate frame: EmitAndCall
\* runs the follow-up inline when the channel has no listener and otherwise
\* starts a goroutine
ReadTyped(l) ==
    /\ Reading(l, {"Ready", "Message", "MessageUpdate"})
    /\ LET f == Head(conns[thr[l].aux].inbox)
       IN  IF DOMAIN ls[ChannelOf(f)] = {}
           THEN /\ \E r \in FollowUp(f) :
                      /\ c1' = r.c1
                      /\ c2' = r.c2
                      /\ total' = r.total
                /\ thr' = [thr EXCEPT ![l].pc = "top"]
                /\ UNCHANGED gors
           ELSE /\ gors' = Append(gors, [ch |-> ChannelOf(f), frame |-> f, fdone |-> FALSE])
                /\ thr' = [thr EXCEPT ![l].pc = "top"]
                               @@ (<<"G", Len(gors) + 1>> :> NewThread("g1", 0))
                /\ UNCHANGED <<c1, c2, total>>
    /\ UNCHANGED <<closed, Connection, lastPingReq, lastPingRes, now, tickers, ls, ecid,
                   opens, hist, cnt, cfg1, cfg2, lastOp, Cache>>

\* an Error or NotFound frame: RevoltError.Emit on the read loop's goroutine
ReadProtocolError(l) ==
    /\ Reading(l, {"Error", "NotFound"})
    /\ LET f == Head(conns[thr[l].aux].inbox)
       IN  thr' = [thr EXCEPT ![l] = CallEmit(@, "RevoltError",
                        IF f = "NotFound" THEN "InvalidSession" ELSE "LabelMe", "top")]
    /\ UNCHANGED <<closed, Connection, lastPingReq, lastPingRes, now, tickers, ls, ecid,
                   opens, gors, hist, cnt, cacheVars>>

\* a Pong frame: socket.lastPingRes = time.Now()
ReadPong(l) ==
    /\ Reading(l, {"Pong"})
    /\ now' = now + 1
    /\ lastPingRes' = now + 1
    /\ thr' = [thr EXCEPT ![l].pc = "top"]
    /\ UNCHANGED <<closed, Connection, lastPingReq, tickers, ls, ecid, opens, gors, hist,
                   cnt, cacheVars>>

\* the transport failed: ReadMessage returns an error, Events.Error.Emit(err)
ReadFailed(l) ==
    /\ Reading(l, {"EOF"})
    /\ thr' = [thr EXCEPT ![l] = CallEmit(@, "Error", "E_read", "sleep")]
    /\ UNCHANGED <<closed, Connection, lastPingReq, lastPingRes, now, tickers, ls, ecid,
                   opens, gors, hist, cnt, cacheVars>>

\* a close frame: ReadMessage runs the close handler.  With closed set the
\* handler returns nil and ReadMessage returns the close error; otherwise
\* the handler enters socket.close(): closed = true, then the send on
\* closeEvent
ReadClose(l) ==
    /\ Reading(l, {"CLOSE"})
    /\ IF closed
       THEN /\ thr' = [thr EXCEPT ![l] = CallEmit(@, "Error", "E_close", "sleep")]
            /\ UNCHANGED closed
       ELSE /\ closed' = TRUE
            /\ thr' = [thr EXCEPT ![l].pc = "h_send"]
    /\ UNCHANGED <<Connection, lastPingReq, lastPingRes, now, tickers, ls, ecid, opens,
                   gors, hist, cnt, cacheVars>>

\* the send on closeEvent of socket.close() is received by a heartbeat
\* waiting in its select, which returns
CloseRendezvous(s, p) ==
    /\ s \in DOMAIN thr /\ p \in DOMAIN thr
    /\ thr[s].pc \in {"c_send", "h_send"}
    /\ p[1] = "P" /\ thr[p].pc = "select"
    /\ thr' = [thr EXCEPT ![s].pc = IF @ = "c_send" THEN "c_stop" ELSE "h_stop",
                          ![p].pc = "done", ![p].note = "closeEvent"]
    /\ UNCHANGED <<closed, Connection, lastPingReq, lastPingRes, now, tickers, ls, ecid,
                   conns, opens, gors, hist, cnt, cacheVars>>

StopTicker(tk) == [i \in DOMAIN tk |-> IF i = Len(tk) THEN TRUE ELSE tk[i]]

\* the handler after the send: socket.ticker.Stop(), the timestamps are
\* reset, return socket.Open()
HandlerReopen(l) ==
    /\ l \in DOMAIN thr
    /\ thr[l].pc = "h_stop"
    /\ tickers' = StopTicker(tickers)
    /\ lastPingReq' = 0
    /\ lastPingRes' = 0
    /\ CallOpen(l, "h_ret", "handler")
    /\ UNCHANGED <<closed, Connection, now, ls, ecid, conns, gors, hist, cnt, cacheVars>>

\* the handler returned what Open returned: ReadMessage returns that error,
\* or the close error when Open returned nil; Events.Error.Emit(err)
HandlerReturn(l) ==
    /\ l \in DOMAIN thr
    /\ thr[l].pc = "h_ret"
    /\ LET res == opens[thr[l].open].res
       IN  thr' = [thr EXCEPT ![l] = CallEmit(@, "Error",
                                        IF res = "nil" THEN "E_close" ELSE res, "sleep")]
    /\ UNCHANGED <<closed, Connection, lastPingReq, lastPingRes, now, tickers, ls, ecid,
                   conns, opens, gors, hist, cnt, cacheVars>>

\* time.Sleep(3 * time.Second), then err = socket.Open()
ListenerReconnect(l) ==
    /\ l \in DOMAIN thr
    /\ thr[l].pc = "sleep"
    /\ CallOpen(l, "l_ret", "readerr")
    /\ UNCHANGED <<closed, Connection, lastPingReq, lastPingRes, now, tickers, ls, ecid,
                   conns, gors, hist, cnt, cacheVars>>

\* if err != nil { Events.Error.Emit(err) }; return
ListenerReturn(l) ==
    /\ l \in DOMAIN thr
    /\ thr[l].pc = "l_ret"
    /\ LET res == opens[thr[l].open].res
       IN  thr' = [thr EXCEPT ![l] = IF res = "nil" THEN [@ EXCEPT !.pc = "done"]
                                     ELSE CallEmit(@, "Error", res, "done")]
    /\ UNCHANGED <<closed, Connection, lastPingReq, lastPingRes, now, tickers, ls, ecid,
                   conns, opens, gors, hist, cnt, cacheVars>>

(***************************************************************************)
(* Socket.pinger (socket.go:990-1008) and Socket.Ping (socket.go:980-983). *)
(***************************************************************************)
\* bound: ticker ticks in the specification of the heartbeat
MaxBeats == 3

\* func (socket *Socket) Latency() time.Duration: zero while a timestamp is
\* the zero time, otherwise lastPingRes.Sub(lastPingReq)
Latency ==
    IF lastPingReq = 0 \/ lastPingRes = 0 THEN 0 ELSE lastPingRes - lastPingReq

\* mutant: an acknowledgment no newer than the probe counts as missing
Stale_OrEqual(res, req) == res <= req

\* socket.lastPingRes.Before(socket.lastPingReq)
Stale(res, req) == res < req

\* the ticker the heartbeat waits on fires: return when the last Pong is
\* older than the last Ping, otherwise Ping; a failed write is published on
\* Events.Error and ends the heartbeat.  At most limit ticks are followed
PingerTickWithin(p, limit) ==
    /\ p \in DOMAIN thr /\ p[1] = "P"
    /\ thr[p].pc = "select"
    /\ ~tickers[thr[p].aux]
    /\ cnt.ticks < limit
    /\ cnt' = [cnt EXCEPT !.ticks = @ + 1]
    /\ IF Stale(lastPingRes, lastPingReq)
       THEN /\ thr' = [thr EXCEPT ![p].pc = "done", ![p].note = "stale"]
            /\ UNCHANGED <<now, lastPingReq, conns>>
       ELSE /\ now' = now + 1
            /\ lastPingReq' = now + 1
            /\ \/ /\ conns[Connection].alive
                  /\ conns' = [conns EXCEPT ![Connection].pings = @ + 1]
                  /\ thr' = [thr EXCEPT ![p].aux = Len(tickers)]
               \/ /\ thr' = [thr EXCEPT ![p] = CallEmit(@, "Error", "E_ping", "done")]
                  /\ UNCHANGED conns
    /\ UNCHANGED <<closed, Connection, lastPingRes, tickers, ls, ecid, opens, gors, hist,
                   cacheVars>>

PingerTick(p) == PingerTickWithin(p, MaxTicks)

(***************************************************************************)
(* The caller: OnMessageUpdate, Open, Close (socket.go:636-652, 682-684).  *)
(***************************************************************************)
UserOnMessageUpdate ==
    /\ thr[User].pc = "start"
    /\ DOMAIN ls["MessageUpdate"] = {}
    /\ LET r == ListenResult(ls, ecid, "MessageUpdate", [kind |-> "user", open |-> 0])
       IN  ls' = r.ls /\ ecid' = r.ecid
    /\ UNCHANGED <<closed, Connection, lastPingReq, lastPingRes, now, tickers, conns, thr,
                   opens, gors, hist, cnt, cacheVars>>

UserOpen ==
    /\ thr[User].pc = "start"
    /\ CallOpen(User, "u_opened", "user")
    /\ UNCHANGED <<closed, Connection, lastPingReq, lastPingRes, now, tickers, ls, ecid,
                   conns, gors, hist, cnt, cacheVars>>

\* Close() after a successful Open: CloseWithCode enters socket.close()
UserClose ==
    /\ thr[User].pc = "u_opened"
    /\ opens[thr[User].open].res = "nil"
    /\ closed' = TRUE
    /\ hist' = [hist EXCEPT !.userClosed = TRUE]
    /\ thr' = [thr EXCEPT ![User].pc = "c_send"]
    /\ UNCHANGED <<Connection, lastPingReq, lastPingRes, now, tickers, ls, ecid, conns,
                   opens, gors, cnt, cacheVars>>

\* socket.ticker.Stop(), then the close frame is written; the server
\* answers a close frame with its own and the connection ends
UserCloseWrite ==
    /\ thr[User].pc = "c_stop"
    /\ tickers' = StopTicker(tickers)
    /\ conns' = [conns EXCEPT ![Connection] =
                    IF @.alive THEN [@ EXCEPT !.inbox = Append(@, "CLOSE"), !.alive = FALSE]
                    ELSE @]
    /\ thr' = [thr EXCEPT ![User].pc = "done"]
    /\ UNCHANGED <<closed, Connection, lastPingReq, lastPingRes, now, ls, ecid, opens,
                   gors, hist, cnt, cacheVars>>

(***************************************************************************)
(* The server end of a connection.                                         *)
(***************************************************************************)
Live(c) == c \in DOMAIN conns /\ conns[c].alive /\ conns[c].authed

ServerSend(c, f) ==
    /\ Live(c)
    /\ f \in {"Error", "Message", "MessageUpdate"}
    /\ cnt.frames < MaxFrames
    /\ cnt' = [cnt EXCEPT !.frames = @ + 1]
    /\ conns' = [conns EXCEPT ![c].inbox = Append(@, f)]
    /\ UNCHANGED <<closed, Connection, lastPingReq, lastPingRes, now, tickers, ls, ecid,
                   thr, opens, gors, hist, cacheVars>>

ServerPong(c) ==
    /\ Live(c)
    /\ conns[c].pings > 0
    /\ conns' = [conns EXCEPT ![c].inbox = Append(@, "Pong"), ![c].pings = @ - 1]
    /\ UNCHANGED <<closed, Connection, lastPingReq, lastPingRes, now, tickers, ls, ecid,
                   thr, opens, gors, hist, cnt, cacheVars>>

\* the server closes with a close frame (CLOSE) or the transport breaks (EOF)
ServerEnd(c, how) ==
    /\ Live(c)
    /\ how \in {"CLOSE", "EOF"}
    /\ conns' = [conns EXCEPT ![c].inbox = Append(@, how), ![c].alive = FALSE]
    /\ UNCHANGED <<closed, Connection, lastPingReq, lastPingRes, now, tickers, ls, ecid,
                   thr, opens, gors, hist, cnt, cacheVars>>

(***************************************************************************)
(* The replay of frames (socket.go:1080-1179, events.go:48-58), with the   *)
(* calls of the follow-ups step by step: a context is at "follow" when it  *)
(* is about to call the follow-up and at "mutate" while it is inside the   *)
(* cache call.                                                             *)
(***************************************************************************)
\* the frames of the end-to-end scenario, and the sub-frames of the Bulk frame
ReplayChans == {"Ready", "Message", "MessageUpdate", "MessageDelete"}
Script == <<"Ready", "Message", "MessageUpdate", "MessageDelete">>
BulkFrames == <<"Message", "MessageDelete">>

\* the container the follow-up of a frame writes: Cache.Users or Cache.Messages
ContainerOf(frame) == IF frame = "Ready" THEN "Users" ELSE "Messages"

\* socket.On<Event>(f) by the caller, before Open
UserListen(ch) ==
    /\ thr[User].pc = "start"
    /\ DOMAIN ls[ch] = {}
    /\ LET r == ListenResult(ls, ecid, ch, [kind |-> "user", open |-> 0])
       IN  ls' = r.ls /\ ecid' = r.ecid
    /\ UNCHANGED <<closed, Connection, lastPingReq, lastPingRes, now, tickers, conns, thr,
                   opens, gors, hist, cnt, cacheVars>>

\* EmitAndCall(t, f) in process, called by l for the frame f, l going on at
\* ret afterwards: with no subscriber l calls the follow-up itself, otherwise
\* a goroutine is started and l goes on
EmitAndCallResult(l, f, ret) ==
    IF DOMAIN ls[ChannelOf(f)] = {}
    THEN [thr |-> [thr EXCEPT ![l].pc = "follow",
                              ![l].em = [NoEm EXCEPT !.val = f, !.ret = ret]],
          gors |-> gors]
    ELSE [thr |-> [thr EXCEPT ![l].pc = ret]
                    @@ (<<"G", Len(gors) + 1>> :> NewThread("g1", 0)),
          gors |-> Append(gors, [ch |-> ChannelOf(f), frame |-> f, fdone |-> FALSE])]

\* ReadMessage returns a frame with a cache effect: process calls EmitAndCall
ReadFrame(l) ==
    /\ Reading(l, ReplayChans)
    /\ LET r == EmitAndCallResult(l, Head(conns[thr[l].aux].inbox), "top")
       IN  thr' = r.thr /\ gors' = r.gors
    /\ UNCHANGED <<closed, Connection, lastPingReq, lastPingRes, now, tickers, ls, ecid,
                   opens, hist, cnt, cacheVars>>

\* ReadMessage returns a Bulk frame: process decodes its sub-frames
ReadBulk(l) ==
    /\ Reading(l, {"Bulk"})
    /\ thr' = [thr EXCEPT ![l].pc = "bulk", ![l].bulk = BulkFrames]
    /\ UNCHANGED <<closed, Connection, lastPingReq, lastPingRes, now, tickers, ls, ecid,
                   opens, gors, hist, cnt, cacheVars>>

\* for _, u := range t.V { socket.process(u) }: the next sub-frame, or the
\* return to the read loop
BulkNext(l) ==
    /\ l \in DOMAIN thr
    /\ thr[l].pc = "bulk"
    /\ IF thr[l].bulk = <<>>
       THEN /\ thr' = [thr EXCEPT ![l].pc = "top"]
            /\ UNCHANGED gors
       ELSE LET r == EmitAndCallResult(l, Head(thr[l].bulk), "bulk")
            IN  /\ thr' = [r.thr EXCEPT ![l].bulk = Tail(@)]
                /\ gors' = r.gors
    /\ UNCHANGED <<closed, Connection, lastPingReq, lastPingRes, now, tickers, ls, ecid,
                   conns, opens, hist, cnt, cacheVars>>

\* the goroutine of EmitAndCall begins: x.Emit(y)
GoEmit(g) ==
    /\ g \in DOMAIN thr
    /\ thr[g].pc = "g1"
    /\ thr' = [thr EXCEPT ![g] = CallEmit(@, gors[g[2]].ch, gors[g[2]].frame, "follow")]
    /\ UNCHANGED <<closed, Connection, lastPingReq, lastPingRes, now, tickers, ls, ecid,
                   conns, opens, gors, hist, cnt, cacheVars>>

\* the frame whose follow-up t runs, and where t goes on afterwards
FollowFrame(t) == IF t[1] = "G" THEN gors[t[2]].frame ELSE thr[t].em.val
FollowRet(t) == IF t[1] = "G" THEN "done" ELSE thr[t].em.ret

\* z(y), or f(t): the follow-up is called and enters the cache call
FollowEnter(t) ==
    /\ t \in DOMAIN thr
    /\ thr[t].pc = "follow"
    /\ thr' = [thr EXCEPT ![t].pc = "mutate"]
    /\ UNCHANGED <<closed, Connection, lastPingReq, lastPingRes, now, tickers, ls, ecid,
                   conns, opens, gors, hist, cnt, cacheVars>>

\* the contexts inside a cache call on the container c
Mutating(c) ==
    {t \in DOMAIN thr : thr[t].pc = "mutate" /\ ContainerOf(FollowFrame(t)) = c}

\* the cache call writes the map and returns.  The containers take no lock
\* (cache.go:45-70, 150-196): while another context is inside a call on the
\* same container the write is a data race on a Go map, and the runtime may
\* stop the process (fatal error: concurrent map writes) instead
FollowExit(t) ==
    /\ t \in DOMAIN thr
    /\ thr[t].pc = "mutate"
    /\ \/ /\ \E r \in FollowUp(FollowFrame(t)) :
                /\ c1' = r.c1
                /\ c2' = r.c2
                /\ total' = r.total
          /\ gors' = IF t[1] = "G" THEN [gors EXCEPT ![t[2]].fdone = TRUE] ELSE gors
          /\ hist' = [hist EXCEPT !.app = Append(@, FollowFrame(t))]
          /\ thr' = [thr EXCEPT ![t].pc = FollowRet(t), ![t].em = NoEm]
       \/ /\ Mutating(ContainerOf(FollowFrame(t))) # {t}
          /\ thr' = [u \in DOMAIN thr |-> [thr[u] EXCEPT !.pc = "crashed"]]
          /\ UNCHANGED <<c1, c2, total, gors, hist>>
    /\ UNCHANGED <<closed, Connection, lastPingReq, lastPingRes, now, tickers, ls, ecid,
                   conns, opens, cnt, cfg1, cfg2, lastOp, Cache>>

\* Authenticate and Listen of Open, the server not answering by itself: the
\* frames it sends are those of ServerFeed and ServerBulk
ReplayAuth(o) ==
    /\ OpenAuth(o)
    /\ \A c \in DOMAIN conns' : conns'[c].inbox = <<>>

\* the server sends the next frame of the scenario
ServerFeed(c) ==
    /\ Live(c)
    /\ hist.fed # <<"Bulk">>
    /\ Len(hist.fed) < Len(Script)
    /\ conns' = [conns EXCEPT ![c].inbox = Append(@, Script[Len(hist.fed) + 1])]
    /\ hist' = [hist EXCEPT !.fed = Append(@, Script[Len(hist.fed) + 1])]
    /\ UNCHANGED <<closed, Connection, lastPingReq, lastPingRes, now, tickers, ls, ecid,
                   thr, opens, gors, cnt, cacheVars>>

\* the server sends the Bulk frame, and nothing else
ServerBulk(c) ==
    /\ Live(c)
    /\ hist.fed = <<>>
    /\ conns' = [conns EXCEPT ![c].inbox = Append(@, "Bulk")]
    /\ hist' = [hist EXCEPT !.fed = <<"Bulk">>]
    /\ UNCHANGED <<closed, Connection, lastPingReq, lastPingRes, now, tickers, ls, ecid,
                   thr, opens, gors, cnt, cacheVars>>

(***************************************************************************)
(* The writes to the transport step by step (socket.go:647-652, 956-983):  *)
(* a context is at "w_lock" when it calls socket.mu.Lock() in Write, at    *)
(* "w_write" while it holds the lock and WriteMessage runs, and at         *)
(* "c_write" while the WriteMessage of CloseWithCode runs.                 *)
(***************************************************************************)
\* the goroutine of the caller that calls BeginTyping
Typist == <<"T", 1>>

\* socket.mu is not held
MuFree == \A t \in DOMAIN thr : thr[t].pc # "w_write"

\* the contexts inside Connection.WriteMessage
Writers == {t \in DOMAIN thr : thr[t].pc \in {"w_write", "c_write"}}

\* go socket.BeginTyping(channel) by the caller, after Open returned nil
UserBeginTyping ==
    /\ thr[User].pc = "u_opened"
    /\ opens[thr[User].open].res = "nil"
    /\ Typist \notin DOMAIN thr
    /\ thr' = thr @@ (Typist :> NewThread("w_lock", 0))
    /\ UNCHANGED <<closed, Connection, lastPingReq, lastPingRes, now, tickers, ls, ecid,
                   conns, opens, gors, hist, cnt, cacheVars>>

\* the ticker fires: pinger returns on a missing acknowledgment, otherwise
\* Ping records the send time and calls Write
PingBegin(p) ==
    /\ p \in DOMAIN thr /\ p[1] = "P"
    /\ thr[p].pc = "select"
    /\ ~tickers[thr[p].aux]
    /\ cnt.ticks < MaxTicks
    /\ cnt' = [cnt EXCEPT !.ticks = @ + 1]
    /\ IF Stale(lastPingRes, lastPingReq)
       THEN /\ thr' = [thr EXCEPT ![p].pc = "done", ![p].note = "stale"]
            /\ UNCHANGED <<now, lastPingReq>>
       ELSE /\ now' = now + 1
            /\ lastPingReq' = now + 1
            /\ thr' = [thr EXCEPT ![p].pc = "w_lock"]
    /\ UNCHANGED <<closed, Connection, lastPingRes, tickers, ls, ecid, conns, opens, gors,
                   hist, cacheVars>>

\* socket.mu.Lock() of Write
WriteLock(t) ==
    /\ t \in DOMAIN thr
    /\ thr[t].pc = "w_lock"
    /\ MuFree
    /\ thr' = [thr EXCEPT ![t].pc = "w_write"]
    /\ UNCHANGED <<closed, Connection, lastPingReq, lastPingRes, now, tickers, ls, ecid,
                   conns, opens, gors, hist, cnt, cacheVars>>

\* WriteMessage returns and the deferred Unlock runs: BeginTyping returns to
\* its caller; pinger goes back to its select after a Ping that was written
\* and publishes the error and returns after one that failed
WriteUnlock(t) ==
    /\ t \in DOMAIN thr
    /\ thr[t].pc = "w_write"
    /\ IF t[1] = "P"
       THEN \/ /\ conns[Connection].alive
               /\ conns' = [conns EXCEPT ![Connection].pings = @ + 1]
               /\ thr' = [thr EXCEPT ![t].pc = "select", ![t].aux = Len(tickers)]
            \/ /\ thr' = [thr EXCEPT ![t] = CallEmit(@, "Error", "E_ping", "done")]
               /\ UNCHANGED conns
       ELSE /\ thr' = [thr EXCEPT ![t].pc = "done"]
            /\ UNCHANGED conns
    /\ UNCHANGED <<closed, Connection, lastPingReq, lastPingRes, now, tickers, ls, ecid,
                   opens, gors, hist, cnt, cacheVars>>

\* Authenticate of Open goes through Write: it waits for socket.mu
LockedAuth(o) ==
    /\ MuFree
    /\ OpenAuth(o)

\* CloseWithCode after socket.close() sent its signal: socket.ticker.Stop(),
\* then Connection.WriteMessage(CloseMessage, ...) begins, socket.mu not taken
CloseWriteBegin ==
    /\ thr[User].pc = "c_stop"
    /\ tickers' = StopTicker(tickers)
    /\ thr' = [thr EXCEPT ![User].pc = "c_write"]
    /\ UNCHANGED <<closed, Connection, lastPingReq, lastPingRes, now, ls, ecid, conns,
                   opens, gors, hist, cnt, cacheVars>>

\* the close frame is written; the server answers with its own and the
\* connection ends
CloseWriteEnd ==
    /\ thr[User].pc = "c_write"
    /\ conns' = [conns EXCEPT ![Connection] =
                    IF @.alive THEN [@ EXCEPT !.inbox = Append(@, "CLOSE"), !.alive = FALSE]
                    ELSE @]
    /\ thr' = [thr EXCEPT ![User].pc = "done"]
    /\ UNCHANGED <<closed, Connection, lastPingReq, lastPingRes, now, tickers, ls, ecid,
                   opens, gors, hist, cnt, cacheVars>>

(***************************************************************************)
(* Frames that cannot be decoded (socket.go:1064-1075, 1125-1130).         *)
(***************************************************************************)
\* payloads: one that is not JSON, a JSON object without a string "type", an
\* Error frame without a string "error", a Message frame whose fields do not
\* decode into Message
Malformed == {"BadJSON", "NoType", "ErrorNoField", "BadMessage"}

\* what process does with each: json.Unmarshal fails and process returns
\* (socket.go:1067-1069); the type assertions a["type"].(string) and
\* a["error"].(string) panic (socket.go:1071, 1075) and nothing recovers;
\* socket.unmarshal fails and emitError is called (socket.go:1127-1130)
ProcessMalformed(f) ==
    IF f = "BadJSON" THEN "return"
    ELSE IF f \in {"NoType", "ErrorNoField"} THEN "panic"
    ELSE "emitError"

\* ReadMessage returns a payload that cannot be decoded.  emitError is
\* Events.Error.EmitInGoroutines(err): nothing with no subscriber, otherwise a
\* goroutine that runs Emit(err).  What was handed to Events.Error is kept
\* in hist.pub.  A panic ends the process: every goroutine stops
ReadMalformed(l) ==
    /\ Reading(l, Malformed)
    /\ LET how == ProcessMalformed(Head(conns[thr[l].aux].inbox))
           e == <<"E", Count("E") + 1>>
       IN  IF how = "return"
           THEN /\ thr' = [thr EXCEPT ![l].pc = "top"]
                /\ UNCHANGED hist
           ELSE IF how = "panic"
           THEN /\ thr' = [u \in DOMAIN thr |-> [thr[u] EXCEPT !.pc = "crashed"]]
                /\ UNCHANGED hist
           ELSE /\ hist' = [hist EXCEPT !.pub = Append(@, "E_decode")]
                /\ thr' = IF DOMAIN ls["Error"] = {}
                          THEN [thr EXCEPT ![l].pc = "top"]
                          ELSE [thr EXCEPT ![l].pc = "top"]
                                 @@ (e :> CallEmit(NewThread("g1", 0), "Error", "E_decode", "done"))
    /\ UNCHANGED <<closed, Connection, lastPingReq, lastPingRes, now, tickers, ls, ecid,
                   opens, gors, cnt, cacheVars>>

\* the server sends a payload the client cannot decode
ServerMalformed(c, f) ==
    /\ Live(c)
    /\ f \in Malformed
    /\ cnt.frames < MaxFrames
    /\ cnt' = [cnt EXCEPT !.frames = @ + 1]
    /\ conns' = [conns EXCEPT ![c].inbox = Append(@, f)]
    /\ UNCHANGED <<closed, Connection, lastPingReq, lastPingRes, now, tickers, ls, ecid,
                   thr, opens, gors, hist, cacheVars>>

(***************************************************************************)
(* The dispatch bus on its own (src/events.go:18-38): a caller that        *)
(* registers callbacks on Events.Message, deletes subscriptions, overrides *)
(* and emits; a callback may delete a subscription, its own or another.    *)
(***************************************************************************)
\* bounds: registrations made on the channel, Emit calls
MaxSubs == 3
MaxEmits == 2

BusChan == "Message"

\* history of the bus: for the Emit in progress or last finished, the ids
\* registered when it began (start), the ids removed before it began (dead0),
\* the ids removed while it ran (deleted), how often each callback ran
\* (calls); the ids of all subscriptions removed so far (dead); the number
\* of Emit calls (emits)
BusIdle == [start |-> {}, dead0 |-> {}, deleted |-> {}, calls |-> [i \in 1..MaxSubs |-> 0],
            dead |-> {}, emits |-> 0]

\* socket.OnMessage(f): f deletes the subscription del when it runs (0: none;
\* ecid + 1: its own; otherwise one registered before it)
BusListen(del) ==
    /\ thr[User].pc = "start"
    /\ ecid[BusChan] < MaxSubs
    /\ del \in 0..(ecid[BusChan] + 1)
    /\ LET r == ListenResult(ls, ecid, BusChan, [kind |-> "bus", del |-> del])
       IN  ls' = r.ls /\ ecid' = r.ecid
    /\ UNCHANGED <<closed, Connection, lastPingReq, lastPingRes, now, tickers, conns, thr,
                   opens, gors, hist, cnt, cacheVars>>

\* mutant: Override also restarts the id counter
OverrideResult_ResetId(lsv, idv, ch, cb) ==
    ListenResult([lsv EXCEPT ![ch] = EmptyMap], [idv EXCEPT ![ch] = 0], ch, cb)

\* func (ec *EventController[T]) Override(f func(T)): clear(ec.ls), Listen(f)
OverrideResult(lsv, idv, ch, cb) ==
    ListenResult([lsv EXCEPT ![ch] = EmptyMap], idv, ch, cb)

BusOverride(del) ==
    /\ thr[User].pc = "start"
    /\ ecid[BusChan] < MaxSubs
    /\ del \in 0..(ecid[BusChan] + 1)
    /\ LET r == OverrideResult(ls, ecid, BusChan, [kind |-> "bus", del |-> del])
       IN  ls' = r.ls /\ ecid' = r.ecid
    /\ hist' = [hist EXCEPT !.bus.dead = @ \cup DOMAIN ls[BusChan]]
    /\ UNCHANGED <<closed, Connection, lastPingReq, lastPingRes, now, tickers, conns, thr,
                   opens, gors, cnt, cacheVars>>

\* the caller deletes the subscription with id i, removed already or not
BusDelete(i) ==
    /\ thr[User].pc = "start"
    /\ i \in 1..ecid[BusChan]
    /\ ls' = DeleteResult(ls, BusChan, i)
    /\ hist' = [hist EXCEPT !.bus.dead = @ \cup {i}]
    /\ UNCHANGED <<closed, Connection, lastPingReq, lastPingRes, now, tickers, ecid, conns,
                   thr, opens, gors, cnt, cacheVars>>

\* Events.Message.Emit(m) by the caller
BusEmit ==
    /\ thr[User].pc = "start"
    /\ hist.bus.emits < MaxEmits
    /\ thr' = [thr EXCEPT ![User] = CallEmit(@, BusChan, "m", "start")]
    /\ hist' = [hist EXCEPT !.bus = [start |-> DOMAIN ls[BusChan], dead0 |-> hist.bus.dead,
                                     deleted |-> {}, calls |-> [i \in 1..MaxSubs |-> 0],
                                     dead |-> hist.bus.dead, emits |-> hist.bus.emits + 1]]
    /\ UNCHANGED <<closed, Connection, lastPingReq, lastPingRes, now, tickers, ls, ecid,
                   conns, opens, gors, cnt, cacheVars>>

\* g(t) for a callback registered by BusListen or BusOverride: it runs, and
\* deletes the subscription it was made to delete
BusInvoke(t, i) ==
    /\ thr[t].pc = "emit"
    /\ i \in EmitRest(thr[t].em)
    /\ ls[thr[t].em.ch][i].kind = "bus"
    /\ LET del == ls[thr[t].em.ch][i].del
       IN  /\ ls' = IF del = 0 THEN ls ELSE DeleteResult(ls, thr[t].em.ch, del)
           /\ hist' = [hist EXCEPT !.bus.calls[i] = @ + 1,
                                   !.bus.deleted = IF del = 0 THEN @ ELSE @ \cup {del},
                                   !.bus.dead = IF del = 0 THEN @ ELSE @ \cup {del}]
    /\ thr' = [thr EXCEPT ![t] = Visited(thr[t], i)]
    /\ UNCHANGED <<closed, Connection, lastPingReq, lastPingRes, now, tickers, ecid, conns,
                   opens, gors, cnt, cacheVars>>

(***************************************************************************)
(* The socket specification.                                               *)
(***************************************************************************)
InitSocket ==
    /\ closed = FALSE
    /\ Connection = 0
    /\ lastPingReq = 0
    /\ lastPingRes = 0
    /\ now = 0
    /\ tickers = <<>>
    /\ ls = [ch \in Channels |-> EmptyMap]
    /\ ecid = [ch \in Channels |-> 0]
    /\ conns = <<>>
    /\ thr = (User :> NewThread("start", 0))
    /\ opens = <<>>
    /\ gors = <<>>
    /\ hist = [userClosed |-> FALSE, obs |-> {}, bus |-> BusIdle, fed |-> <<>>, app |-> <<>>,
               pub |-> <<>>]
    /\ cnt = [dials |-> 0, frames |-> 0, ticks |-> 0]

\* the caches of the socket: an unbounded Users and an unbounded Messages
InitClient ==
    /\ InitSocket
    /\ cfg1 = [MaxSize |-> InfiniteCache, DontInsertIfOverflow |-> FALSE, Checker |-> "nil"]
    /\ c1 = EmptyMap
    /\ cfg2 = [MaxSize1 |-> 0, MaxSize2 |-> 0, TotalMaxSize |-> InfiniteCache,
               DontInsertIfOverflow |-> FALSE, Checker |-> "nil"]
    /\ c2 = EmptyMap
    /\ total = 0
    /\ lastOp = [op |-> "none", ev |-> "none"]
    /\ Cache = NewSocketCache(NoCacheConfig)

\* the connection's life: Open, Close, the read loop, the heartbeat, the
\* server's answers to authentication and to Ping, and the ends of a connection
NextSocket ==
    \/ UserOpen
    \/ UserClose
    \/ UserCloseWrite
    \/ \E o \in DOMAIN opens : OpenConnect(o)
    \/ \E o \in DOMAIN opens : OpenAuth(o)
    \/ \E o \in DOMAIN opens : OpenDefer(o)
    \/ \E t \in DOMAIN thr : EmitDone(t)
    \/ \E t \in DOMAIN thr, i \in 1..MaxDials : EmitOpen(t, i)
    \/ \E g \in DOMAIN thr : GoStep(g)
    \/ \E l \in DOMAIN thr : ListenerTop(l)
    \/ \E l \in DOMAIN thr : ReadTyped(l)
    \/ \E l \in DOMAIN thr : ReadProtocolError(l)
    \/ \E l \in DOMAIN thr : ReadPong(l)
    \/ \E l \in DOMAIN thr : ReadFailed(l)
    \/ \E l \in DOMAIN thr : ReadClose(l)
    \/ \E s \in DOMAIN thr, p \in DOMAIN thr : CloseRendezvous(s, p)
    \/ \E l \in DOMAIN thr : HandlerReopen(l)
    \/ \E l \in DOMAIN thr : HandlerReturn(l)
    \/ \E l \in DOMAIN thr : ListenerReconnect(l)
    \/ \E l \in DOMAIN thr : ListenerReturn(l)
    \/ \E p \in DOMAIN thr : PingerTick(p)
    \/ \E c \in DOMAIN conns : ServerPong(c)
    \/ \E c \in DOMAIN conns, how \in {"CLOSE", "EOF"} : ServerEnd(c, how)

SpecSocket == InitClient /\ [][NextSocket]_vars

\* the steps of NextSocket the program takes itself once called: all but the
\* caller's decisions to call Open and Close and the server's doings
ProgramSocket ==
    \/ UserCloseWrite
    \/ \E o \in DOMAIN opens : OpenConnect(o)
    \/ \E o \in DOMAIN opens : OpenAuth(o)
    \/ \E o \in DOMAIN opens : OpenDefer(o)
    \/ \E t \in DOMAIN thr : EmitDone(t)
    \/ \E t \in DOMAIN thr, i \in 1..MaxDials : EmitOpen(t, i)
    \/ \E g \in DOMAIN thr : GoStep(g)
    \/ \E l \in DOMAIN thr : ListenerTop(l)
    \/ \E l \in DOMAIN thr : ReadTyped(l)
    \/ \E l \in DOMAIN thr : ReadProtocolError(l)
    \/ \E l \in DOMAIN thr : ReadPong(l)
    \/ \E l \in DOMAIN thr : ReadFailed(l)
    \/ \E l \in DOMAIN thr : ReadClose(l)
    \/ \E s \in DOMAIN thr, p \in DOMAIN thr : CloseRendezvous(s, p)
    \/ \E l \in DOMAIN thr : HandlerReopen(l)
    \/ \E l \in DOMAIN thr : HandlerReturn(l)
    \/ \E l \in DOMAIN thr : ListenerReconnect(l)
    \/ \E l \in DOMAIN thr : ListenerReturn(l)
    \/ \E p \in DOMAIN thr : PingerTick(p)

\* the same under the Go scheduler: the program does not stop while one of
\* its steps is possible
SpecSocketFair == SpecSocket /\ WF_vars(ProgramSocket)

\* the dispatch of frames on one connection: a caller that may subscribe to
\* MessageUpdate, Open, and the frames the server sends
NextDispatch ==
    \/ UserOnMessageUpdate
    \/ UserOpen
    \/ \E o \in DOMAIN opens : OpenConnect(o)
    \/ \E o \in DOMAIN opens : OpenAuth(o)
    \/ \E o \in DOMAIN opens : OpenDefer(o)
    \/ \E t \in DOMAIN thr : EmitDone(t)
    \/ \E t \in DOMAIN thr, i \in 1..MaxDials : EmitUser(t, i)
    \/ \E t \in DOMAIN thr, i \in 1..MaxDials : EmitOpen(t, i)
    \/ \E g \in DOMAIN thr : GoStep(g)
    \/ \E l \in DOMAIN thr : ListenerTop(l)
    \/ \E l \in DOMAIN thr : ReadTyped(l)
    \/ \E l \in DOMAIN thr : ReadProtocolError(l)
    \/ \E c \in DOMAIN conns, f \in {"Error", "Message", "MessageUpdate"} : ServerSend(c, f)

SpecDispatch == InitClient /\ [][NextDispatch]_vars

\* the steps of NextDispatch the program takes itself (Open, the read loop,
\* the goroutines of EmitAndCall and the callbacks they run), as opposed to
\* those of the caller and of the server
ProgramDispatch ==
    \/ \E o \in DOMAIN opens : OpenConnect(o)
    \/ \E o \in DOMAIN opens : OpenAuth(o)
    \/ \E o \in DOMAIN opens : OpenDefer(o)
    \/ \E t \in DOMAIN thr : EmitDone(t)
    \/ \E t \in DOMAIN thr, i \in 1..MaxDials : EmitUser(t, i)
    \/ \E t \in DOMAIN thr, i \in 1..MaxDials : EmitOpen(t, i)
    \/ \E g \in DOMAIN thr : GoStep(g)
    \/ \E l \in DOMAIN thr : ListenerTop(l)
    \/ \E l \in DOMAIN thr : ReadTyped(l)
    \/ \E l \in DOMAIN thr : ReadProtocolError(l)

\* the same under the Go scheduler: a goroutine that can run does run, so
\* the program does not stop while one of its steps is possible
SpecDispatchFair == SpecDispatch /\ WF_vars(ProgramDispatch)

\* the replay of the scenario's frames, or of the Bulk frame, to a client
\* whose caller subscribed to any of their channels before Open
NextReplay ==
    \/ \E ch \in ReplayChans : UserListen(ch)
    \/ UserOpen
    \/ \E o \in DOMAIN opens : OpenConnect(o)
    \/ \E o \in DOMAIN opens : ReplayAuth(o)
    \/ \E o \in DOMAIN opens : OpenDefer(o)
    \/ \E t \in DOMAIN thr, i \in 1..MaxDials : EmitUser(t, i)
    \/ \E t \in DOMAIN thr, i \in 1..MaxDials : EmitOpen(t, i)
    \/ \E g \in DOMAIN thr : GoEmit(g)
    \/ \E t \in DOMAIN thr : FollowEnter(t)
    \/ \E t \in DOMAIN thr : FollowExit(t)
    \/ \E l \in DOMAIN thr : ListenerTop(l)
    \/ \E l \in DOMAIN thr : ReadFrame(l)
    \/ \E l \in DOMAIN thr : ReadBulk(l)
    \/ \E l \in DOMAIN thr : BulkNext(l)
    \/ \E c \in DOMAIN conns : ServerFeed(c)
    \/ \E c \in DOMAIN conns : ServerBulk(c)

SpecReplay == InitClient /\ [][NextReplay]_vars

\* the senders on one connection: Open, the heartbeat, a goroutine of the
\* caller that calls BeginTyping, and Close
NextWrites ==
    \/ UserOpen
    \/ UserBeginTyping
    \/ UserClose
    \/ CloseWriteBegin
    \/ CloseWriteEnd
    \/ \E o \in DOMAIN opens : OpenConnect(o)
    \/ \E o \in DOMAIN opens : LockedAuth(o)
    \/ \E o \in DOMAIN opens : OpenDefer(o)
    \/ \E t \in DOMAIN thr, i \in 1..MaxDials : EmitOpen(t, i)
    \/ \E g \in DOMAIN thr : GoStep(g)
    \/ \E l \in DOMAIN thr : ListenerTop(l)
    \/ \E l \in DOMAIN thr : ReadTyped(l)
    \/ \E l \in DOMAIN thr : ReadProtocolError(l)
    \/ \E l \in DOMAIN thr : ReadPong(l)
    \/ \E s \in DOMAIN thr, p \in DOMAIN thr : CloseRendezvous(s, p)
    \/ \E p \in DOMAIN thr : PingBegin(p)
    \/ \E t \in DOMAIN thr : WriteLock(t)
    \/ \E t \in DOMAIN thr : WriteUnlock(t)
    \/ \E c \in DOMAIN conns : ServerPong(c)

SpecWrites == InitClient /\ [][NextWrites]_vars

\* a connection on which the server sends payloads that cannot be decoded,
\* to a client whose caller may have subscribed with OnError
NextDecode ==
    \/ UserListen("Error")
    \/ UserOpen
    \/ \E o \in DOMAIN opens : OpenConnect(o)
    \/ \E o \in DOMAIN opens : OpenAuth(o)
    \/ \E o \in DOMAIN opens : OpenDefer(o)
    \/ \E t \in DOMAIN thr : EmitDone(t)
    \/ \E t \in DOMAIN thr, i \in 1..MaxDials : EmitUser(t, i)
    \/ \E t \in DOMAIN thr, i \in 1..MaxDials : EmitOpen(t, i)
    \/ \E g \in DOMAIN thr : GoStep(g)
    \/ \E l \in DOMAIN thr : ListenerTop(l)
    \/ \E l \in DOMAIN thr : ReadTyped(l)
    \/ \E l \in DOMAIN thr : ReadProtocolError(l)
    \/ \E l \in DOMAIN thr : ReadMalformed(l)
    \/ \E c \in DOMAIN conns, f \in Malformed : ServerMalformed(c, f)

SpecDecode == InitClient /\ [][NextDecode]_vars

\* the heartbeat of one connection: Open, the ticks, the Pongs of the server
NextHeartbeat ==
    \/ UserOpen
    \/ \E o \in DOMAIN opens : OpenConnect(o)
    \/ \E o \in DOMAIN opens : OpenAuth(o)
    \/ \E o \in DOMAIN opens : OpenDefer(o)
    \/ \E t \in DOMAIN thr, i \in 1..MaxDials : EmitOpen(t, i)
    \/ \E g \in DOMAIN thr : GoStep(g)
    \/ \E l \in DOMAIN thr : ListenerTop(l)
    \/ \E l \in DOMAIN thr : ReadTyped(l)
    \/ \E l \in DOMAIN thr : ReadProtocolError(l)
    \/ \E l \in DOMAIN thr : ReadPong(l)
    \/ \E p \in DOMAIN thr : PingerTickWithin(p, MaxBeats)
    \/ \E c \in DOMAIN conns : ServerPong(c)

SpecHeartbeat == InitClient /\ [][NextHeartbeat]_vars

NextBus ==
    \/ \E del \in 0..MaxSubs : BusListen(del)
    \/ \E del \in 0..MaxSubs : BusOverride(del)
    \/ \E i \in 1..MaxSubs : BusDelete(i)
    \/ BusEmit
    \/ \E i \in 1..MaxSubs : BusInvoke(User, i)
    \/ EmitDone(User)

SpecBus == InitClient /\ [][NextBus]_vars

C2_NoReconnectAfterClose ==
    \A o \in DOMAIN opens : ~opens[o].late

\* C3: when the remote closes with a close frame while the client is Ready
\* and the user has not called Close, the read loop started by the re-Open
\* does not leave at the closed check: it reads the new connection.
C3_ReconnectedLoopReads ==
    \A o \in DOMAIN opens :
        (opens[o].kind = "handler" /\ opens[o].up /\ opens[o].lis # 0 /\ ~hist.userClosed)
            => thr[<<"L", opens[o].lis>>].note # "closed"

\* C4: while the user has not called Close, a failed reconnect attempt
\* leaves a read loop that will try again.
C4_ReconnectRetried ==
    ((\E o \in DOMAIN opens : opens[o].kind # "user" /\ opens[o].res \notin {"nil", "pending"})
        /\ ~hist.userClosed)
    => \E t \in DOMAIN thr : t[1] = "L" /\ thr[t].pc # "done"

\* C5: Open returns nil only if a Ready was published to its Ready listener
\* after its authentication frame was sent; once an error (a protocol Error
\* or NotFound, or a transport error) was published to its error listeners
\* before any Ready, what it returns is one of those errors, a SocketError
\* carrying the error id for a protocol error.
C5_OpenResult ==
    \A o \in DOMAIN opens :
        /\ opens[o].res = "nil" => opens[o].rdy
        /\ (opens[o].errs # {} /\ opens[o].res # "pending")
            => opens[o].res \in {IF e[1] = "RevoltError" THEN SocketError(e[2]) ELSE e[2]
                                    : e \in opens[o].errs}

\* C6: the Ready, RevoltError and Error channels hold exactly the
\* subscriptions of the Open calls that have registered and not yet returned:
\* when an Open returns, on any path, its three subscriptions are gone.
C6_OpenSubscriptionsRemoved ==
    \A ch \in {"Ready", "RevoltError", "Error"} :
        DOMAIN ls[ch] = {opens[o].subs[ch] :
                            o \in {q \in DOMAIN opens : opens[q].pc \in {"auth", "select", "defer"}}}

\* one Open returned through a failed authentication write and another
\* returned nil, and the three channels are empty
C6_Witness ==
    /\ \E o \in DOMAIN opens : opens[o].pc = "returned" /\ opens[o].res = "E_auth"
    /\ \E o \in DOMAIN opens : opens[o].pc = "returned" /\ opens[o].res = "nil"
    /\ \A ch \in {"Ready", "RevoltError", "Error"} : DOMAIN ls[ch] = {}

(***************************************************************************)
(* Configurations and the cache specifications.                            *)
(***************************************************************************)
Cfg1s == [MaxSize : Caps, DontInsertIfOverflow : BOOLEAN, Checker : Checkers]
Cfg2s == [MaxSize1 : Caps, MaxSize2 : Caps, TotalMaxSize : Caps,
          DontInsertIfOverflow : BOOLEAN, Checker : Checkers]
\* a zero-valued Cache1 / Cache2, as GenericCache.init leaves it
Cfg1Zero == [MaxSize |-> 0, DontInsertIfOverflow |-> FALSE, Checker |-> "nil"]
Cfg2Zero == [MaxSize1 |-> 0, MaxSize2 |-> 0, TotalMaxSize |-> 0,
             DontInsertIfOverflow |-> FALSE, Checker |-> "nil"]
NoOp == [op |-> "none", ev |-> "none"]

InitCache1 ==
    /\ cfg1 \in Cfg1s
    /\ c1 = EmptyMap
    /\ cfg2 = Cfg2Zero
    /\ c2 = EmptyMap
    /\ total = 0
    /\ lastOp = NoOp
    /\ Cache = NewSocketCache(NoCacheConfig)
    /\ InitSocket

NextCache1 ==
    /\ UNCHANGED sockVars
    /\ \/ \E k \in Keys, v \in Vals : Cache1_Set(k, v)
       \/ \E k \in Keys : Cache1_Del(k)
       \/ \E k \in Keys, v \in Vals : Cache1_PartiallyUpdate(k, v)

SpecCache1 == InitCache1 /\ [][NextCache1]_vars

InitCache2 ==
    /\ cfg2 \in Cfg2s
    /\ c2 = EmptyMap
    /\ total = 0
    /\ cfg1 = Cfg1Zero
    /\ c1 = EmptyMap
    /\ lastOp = NoOp
    /\ Cache = NewSocketCache(NoCacheConfig)
    /\ InitSocket

\* the Cache2 calls, beside Set on the Cache1 that InitCache2 leaves unconfigured
NextCache2 ==
    /\ UNCHANGED sockVars
    /\ \/ \E p \in Parents, k \in Keys, v \in Vals : Cache2_Set(p, k, v)
       \/ \E k \in Keys, v \in Vals : Cache1_Set(k, v)
       \/ \E p \in Parents, k \in Keys : Cache2_Del(p, k)
       \/ \E p \in Parents : Cache2_DelGroup(p)
       \/ \E p \in Parents, k \in Keys, v \in Vals : Cache2_PartiallyUpdate(p, k, v)

SpecCache2 == InitCache2 /\ [][NextCache2]_vars

\* one configured container, Cache1 or Cache2, beside the other left
\* unconfigured, under every call of both
InitCaches ==
    /\ \/ cfg1 \in Cfg1s /\ cfg2 = Cfg2Zero
       \/ cfg1 = Cfg1Zero /\ cfg2 \in Cfg2s
    /\ c1 = EmptyMap
    /\ c2 = EmptyMap
    /\ total = 0
    /\ lastOp = NoOp
    /\ Cache = NewSocketCache(NoCacheConfig)
    /\ InitSocket

NextCaches ==
    /\ UNCHANGED sockVars
    /\ \/ \E k \in Keys, v \in Vals : Cache1_Set(k, v)
       \/ \E k \in Keys : Cache1_Del(k)
       \/ \E k \in Keys, v \in Vals : Cache1_PartiallyUpdate(k, v)
       \/ \E p \in Parents, k \in Keys, v \in Vals : Cache2_Set(p, k, v)
       \/ \E p \in Parents, k \in Keys : Cache2_Del(p, k)
       \/ \E p \in Parents : Cache2_DelGroup(p)
       \/ \E p \in Parents, k \in Keys, v \in Vals : Cache2_PartiallyUpdate(p, k, v)

SpecCaches == InitCaches /\ [][NextCaches]_vars

(***************************************************************************)
(* The cache steps of Socket.process (socket.go:1100-1618) on the          *)
(* containers of socket.Cache, for channels with no subscriber: the        *)
(* follow-up of EmitAndCall runs on the read loop, one call after another. *)
(* lastOp holds the frame being processed (frame) and the calls its        *)
(* follow-up has still to make (todo); ev is "panic" once a call faulted.  *)
(***************************************************************************)
ServerIds == {1, 2}
RoleIds == {3, 4}

Entity(key, val) == [key |-> key, val |-> val]

\* a call of the follow-up on the container k of socket.Cache
Call(op, k, parent, key, val) ==
    [op |-> op, k |-> k, parent |-> parent, key |-> key, val |-> val]

\* (*Cache1).Set: a nil receiver faults at c.MaxSize; on a nil map the
\* assignment c.Cache[key] = v faults when resize reaches it
Container1_Set(c, e) ==
    IF c.isNil THEN {[panic |-> TRUE, c |-> c]}
    ELSE IF c.mapNil
    THEN IF c.MaxSize = 0 \/ (c.MaxSize > 0 /\ c.Checker # "nil" /\ ~CanCache(c.Checker, e))
         THEN {[panic |-> FALSE, c |-> c]}
         ELSE {[panic |-> TRUE, c |-> c]}
    ELSE {[panic |-> FALSE, c |-> [c EXCEPT !.Cache = r.cache]]
            : r \in Cache1_SetResult(c, c.Cache, e)}

\* (*Cache1).Del: delete on a nil map does nothing
Container1_Del(c, id) ==
    IF c.isNil THEN {[panic |-> TRUE, c |-> c]}
    ELSE {[panic |-> FALSE, c |-> [c EXCEPT !.Cache = Cache1_DelResult(@, id)]]}

\* the Cache2 containers are created and initialised by GenericCache.init
Container2_Set(c, parent, e) ==
    {[panic |-> FALSE, c |-> [c EXCEPT !.Cache = r.cache, !.total = r.total]]
        : r \in Cache2_SetResult(c, St2(c.Cache, c.total), parent, e)}

Container2_Del(c, parent, id) ==
    LET r == Cache2_del(St2(c.Cache, c.total), parent, id)
    IN  {[panic |-> FALSE, c |-> [c EXCEPT !.Cache = r.cache, !.total = r.total]]}

Container2_DelGroup(c, parent) ==
    LET r == Cache2_DelGroupResult(St2(c.Cache, c.total), parent)
    IN  {[panic |-> FALSE, c |-> [c EXCEPT !.Cache = r.cache, !.total = r.total]]}

\* the orders in which a Go map with the keys S may be ranged over
RECURSIVE Orders(_)
Orders(S) ==
    IF S = {} THEN {<<>>}
    ELSE UNION {{<<x>> \o s : s \in Orders(S \ {x})} : x \in S}

RECURSIVE Flatten(_)
Flatten(ss) == IF ss = <<>> THEN <<>> ELSE Head(ss) \o Flatten(Tail(ss))

\* mutant: the server entry is removed and its roles are left
ServerDeleteCalls_NoCascade(f) ==
    {<<Call("Del", "Servers", 0, f.ServerID, 0)>>}

\* case "ServerDelete": Roles.DelGroup(r.ServerID), Servers.Del(r.ServerID)
ServerDeleteCalls(f) ==
    {<<Call("DelGroup", "Roles", f.ServerID, 0, 0), Call("Del", "Servers", 0, f.ServerID, 0)>>}

\* mutant: the roles of a created server are cached under the server
ServerCreateRoleParent_Server(f, role) == f.Server.key

\* case "ServerCreate": socket.Cache.Roles.Set(i, o.ToOptimized(i)), the
\* parent given is the key i of the role in r.Server.Roles
ServerCreateRoleParent(f, role) == role

\* case "ServerCreate": Servers.Set, then Roles.Set for each role of the map
\* r.Server.Roles, then Channels.Set for each of r.Channels
ServerCreateCalls(f) ==
    {<<Call("Set", "Servers", 0, f.Server.key, f.Server.val)>>
       \o [i \in DOMAIN o |->
              Call("Set", "Roles", ServerCreateRoleParent(f, o[i]), o[i], f.Server.Roles[o[i]])]
       \o [i \in DOMAIN f.Channels |->
              Call("Set", "Channels", 0, f.Channels[i].key, f.Channels[i].val)]
        : o \in Orders(DOMAIN f.Server.Roles)}

\* the calls of Ready for one server of r.Servers, its roles in the order o
ReadyServerCalls(s, o) ==
    <<Call("Set", "Servers", 0, s.key, s.val)>>
       \o [i \in DOMAIN o |-> Call("Set", "Roles", s.key, o[i], s.Roles[o[i]])]

\* case "Ready": Users.Set for each of r.Users; for each of r.Servers,
\* Servers.Set and Roles.Set(s.ID, ...) for each role; Channels.Set for each
\* of r.Channels (frames carry at most one server, and no emoji)
ReadyCalls(f) ==
    {[i \in DOMAIN f.Users |-> Call("Set", "Users", 0, f.Users[i].key, f.Users[i].val)]
       \o Flatten([i \in DOMAIN f.Servers |-> ReadyServerCalls(f.Servers[i], o)])
       \o [i \in DOMAIN f.Channels |->
              Call("Set", "Channels", 0, f.Channels[i].key, f.Channels[i].val)]
        : o \in IF f.Servers = <<>> THEN {<<>>} ELSE Orders(DOMAIN f.Servers[1].Roles)}

\* case "ServerRoleDelete": Roles.Del(r.ServerID, r.RoleID)
ServerRoleDeleteCalls(f) ==
    {<<Call("Del", "Roles", f.ServerID, f.RoleID, 0)>>}

(***************************************************************************)
(* The patch frames (socket.go:1222-1268, 1328-1369, 1409-1458,            *)
(* 1466-1534).  An attribute of a patch that is a pointer is a record      *)
(* (has, v); one that is a string is absent when empty.  Flags is an       *)
(* unsigned integer of FlagBits bits.                                      *)
(***************************************************************************)
\* bound: the bits of a bitfield the model follows
FlagBits == 3

FlagValues == 0..(2^FlagBits - 1)
Bit(x, i) == (x \div 2^i) % 2

\* x | y and x &^ y
RECURSIVE BitOrFrom(_, _, _)
BitOrFrom(x, y, i) ==
    IF i = FlagBits THEN 0
    ELSE 2^i * (IF Bit(x, i) = 1 \/ Bit(y, i) = 1 THEN 1 ELSE 0) + BitOrFrom(x, y, i + 1)
BitOr(x, y) == BitOrFrom(x, y, 0)
RECURSIVE BitAndNotFrom(_, _, _)
BitAndNotFrom(x, y, i) ==
    IF i = FlagBits THEN 0
    ELSE 2^i * (IF Bit(x, i) = 1 /\ Bit(y, i) = 0 THEN 1 ELSE 0) + BitAndNotFrom(x, y, i + 1)
BitAndNot(x, y) == BitAndNotFrom(x, y, 0)

\* the named bits: each a single bit of its bitfield
OptimizedChannelFlagActive == 1
OptimizedChannelFlagNSFW == 2
OptimizedServerFlagsAnalytics == 1
OptimizedServerFlagsNSFW == 2
OptimizedRoleFlagsHoist == 1
OptimizedUserFlagsOnline == 1
\* the bits of a user's Flags that hold its flags and its badges
UserFlagsMask == 2
UserBadgesMask == 4

\* u.Flags.updateFlags(v) and u.Flags.updateBadges(v): the bits of the mask
\* are replaced by those of v
updateFlags(flags, v) == BitOr(BitAndNot(flags, UserFlagsMask), v)
updateBadges(flags, v) == BitOr(BitAndNot(flags, UserBadgesMask), v)

\* absent and present attributes
NoBool == [has |-> FALSE, v |-> FALSE]
NoInt == [has |-> FALSE, v |-> 0]
NoStr == [has |-> FALSE, v |-> ""]
Some(v) == [has |-> TRUE, v |-> v]
OptBools == {NoBool, Some(TRUE), Some(FALSE)}

\* mutant: the bit is assigned as the whole bitfield
PatchBit_Overwrite(flags, attr, bit) ==
    IF attr.has THEN (IF attr.v THEN bit ELSE 0) ELSE flags

\* if attr != nil { if *attr { Flags |= bit } else { Flags &= ^bit } }
PatchBit(flags, attr, bit) ==
    IF attr.has
    THEN IF attr.v THEN BitOr(flags, bit) ELSE BitAndNot(flags, bit)
    ELSE flags

\* the updater of ChannelUpdate (socket.go:1228-1266) on the cached fields
\* Flags, Name and Description
ChannelUpdater(c, r) ==
    LET a == IF r.Data.Name # "" THEN [c EXCEPT !.Name = r.Data.Name] ELSE c
        b == IF r.Data.Description.has THEN [a EXCEPT !.Description = r.Data.Description.v]
             ELSE a
        d == [b EXCEPT !.Flags = PatchBit(@, r.Data.Active, OptimizedChannelFlagActive)]
        e == [d EXCEPT !.Flags = PatchBit(@, r.Data.NSFW, OptimizedChannelFlagNSFW)]
    IN  IF "Description" \in r.Clear THEN [e EXCEPT !.Description = ""] ELSE e

\* the updater of ServerUpdate (socket.go:1335-1367) on the cached fields
\* Flags, Name and Description
ServerUpdater(s, r) ==
    LET a == IF r.Data.Name.has THEN [s EXCEPT !.Name = r.Data.Name.v] ELSE s
        b == [a EXCEPT !.Flags = PatchBit(@, r.Data.Analytics, OptimizedServerFlagsAnalytics)]
        d == [b EXCEPT !.Flags = PatchBit(@, r.Data.NSFW, OptimizedServerFlagsNSFW)]
    IN  IF "Description" \in r.Clear THEN [d EXCEPT !.Description = ""] ELSE d

\* t.IsCreated of ServerRoleUpdate (socket.go:1415-1417)
IsCreated(r) ==
    r.Data.Name # "" /\ r.Data.Permissions.has /\ r.Data.Hoist.has /\ r.Data.Rank.has

\* (&Role{Name, Permissions, Hoist, Rank, Colour}).ToOptimized(r.RoleID)
CreatedRole(r) ==
    [Flags |-> IF r.Data.Hoist.v THEN OptimizedRoleFlagsHoist ELSE 0,
     Name |-> r.Data.Name, Colour |-> r.Data.Colour,
     Permissions |-> r.Data.Permissions.v, Rank |-> r.Data.Rank.v]

\* the updater of ServerRoleUpdate (socket.go:1431-1454)
RoleUpdater(o, r) ==
    LET a == IF r.Data.Name # "" THEN [o EXCEPT !.Name = r.Data.Name] ELSE o
        b == IF r.Data.Permissions.has THEN [a EXCEPT !.Permissions = r.Data.Permissions.v]
             ELSE a
        d == IF r.Data.Colour # "" THEN [b EXCEPT !.Colour = r.Data.Colour] ELSE b
        e == [d EXCEPT !.Flags = PatchBit(@, r.Data.Hoist, OptimizedRoleFlagsHoist)]
        g == IF r.Data.Rank.has THEN [e EXCEPT !.Rank = r.Data.Rank.v] ELSE e
    IN  IF "Colour" \in r.Clear THEN [g EXCEPT !.Colour = ""] ELSE g

\* Presence.ToOptimized()
PresenceToOptimized(p) ==
    IF p = "Busy" THEN "OptimizedPresenceBusy" ELSE "OptimizedPresenceOnline"

\* a nil *OptimizedUserStatus and a nil *OptimizedUserProfile, and the
\* zero values &OptimizedUserStatus{} and &OptimizedUserProfile{}
NilStatus == [isNil |-> TRUE, Text |-> "", Presence |-> "OptimizedPresenceInvisible"]
ZeroStatus == [isNil |-> FALSE, Text |-> "", Presence |-> "OptimizedPresenceInvisible"]
NilProfile == [isNil |-> TRUE, Content |-> "", Background |-> "nil"]
ZeroProfile == [isNil |-> FALSE, Content |-> "", Background |-> "nil"]

\* absent Status and Profile of a PartialUser
NoStatus == [has |-> FALSE, Presence |-> "", Text |-> ""]
NoProfile == [has |-> FALSE, Background |-> "nil"]

\* the clear names of UserUpdate that its documentation lists
UserClearNames == {"Avatar", "StatusText", "StatusPresence", "ProfileContent",
                   "ProfileBackground", "DisplayName"}

\* mutant: the display name is cleared on the documented name
IsDisplayNameRemoved_Documented(r) == "DisplayName" \in r.Clear

\* func (uu *UserUpdate) IsDisplayNameRemoved() bool
IsDisplayNameRemoved(r) == "Display" \in r.Clear

\* the assignments of the updater of UserUpdate (socket.go:1474-1513) on
\* the cached fields Flags, Username, Status and Profile (Relations and
\* Relationship, assigned when present, are not followed)
UserAssign(u, r) ==
    LET a == IF r.Data.Badges.has THEN [u EXCEPT !.Flags = updateBadges(@, r.Data.Badges.v)]
             ELSE u
        b == IF r.Data.Flags.has THEN [a EXCEPT !.Flags = updateFlags(@, r.Data.Flags.v)]
             ELSE a
        d == [b EXCEPT !.Flags = PatchBit(@, r.Data.Online, OptimizedUserFlagsOnline)]
        e == IF r.Data.Username.has THEN [d EXCEPT !.Username = r.Data.Username.v] ELSE d
        s0 == IF e.Status.isNil THEN ZeroStatus ELSE e.Status
        s1 == IF r.Data.Status.Presence # ""
              THEN [s0 EXCEPT !.Presence = PresenceToOptimized(r.Data.Status.Presence)]
              ELSE s0
        s2 == IF r.Data.Status.Text # "" THEN [s1 EXCEPT !.Text = r.Data.Status.Text] ELSE s1
        g == IF r.Data.Status.has THEN [e EXCEPT !.Status = s2] ELSE e
        p0 == IF g.Profile.isNil THEN ZeroProfile ELSE g.Profile
        p1 == IF r.Data.Profile.Background # "nil"
              THEN [p0 EXCEPT !.Background = r.Data.Profile.Background]
              ELSE p0
    IN  IF r.Data.Profile.has THEN [g EXCEPT !.Profile = p1] ELSE g

\* the clears of the updater of UserUpdate (socket.go:1514-1532)
UserClear(u, r) ==
    LET a == IF "Avatar" \in r.Clear THEN [u EXCEPT !.Avatar = "nil"] ELSE u
        b == IF "StatusText" \in r.Clear /\ ~a.Status.isNil
             THEN [a EXCEPT !.Status.Text = ""] ELSE a
        d == IF "StatusPresence" \in r.Clear /\ ~b.Status.isNil
             THEN [b EXCEPT !.Status.Presence = "OptimizedPresenceInvisible"] ELSE b
        e == IF "ProfileContent" \in r.Clear /\ ~d.Profile.isNil
             THEN [d EXCEPT !.Profile.Content = ""] ELSE d
        g == IF "ProfileBackground" \in r.Clear /\ ~e.Profile.isNil
             THEN [e EXCEPT !.Profile.Background = "nil"] ELSE e
    IN  IF IsDisplayNameRemoved(r) THEN [g EXCEPT !.DisplayName = ""] ELSE g

\* the updater of UserUpdate
UserUpdater(u, r) == UserClear(UserAssign(u, r), r)

\* func (wu *WebhookUpdate) IsAvatarRemoved() bool
IsAvatarRemoved(r) == "Avatar" \in r.Remove

\* the updater of WebhookUpdate (socket.go:1594-1607)
WebhookUpdater(w, r) ==
    LET a == IF r.Data.Name # "" THEN [w EXCEPT !.Name = r.Data.Name] ELSE w
        b == IF r.Data.Avatar # "nil" THEN [a EXCEPT !.Avatar = r.Data.Avatar] ELSE a
        d == IF r.Data.Permissions.has THEN [b EXCEPT !.Permissions = r.Data.Permissions.v]
             ELSE b
    IN  IF IsAvatarRemoved(r) THEN [d EXCEPT !.Avatar = "nil"] ELSE d

\* the updater a patch frame hands to PartiallyUpdate
Updater(old, r) ==
    IF r.type = "ChannelUpdate" THEN ChannelUpdater(old, r)
    ELSE IF r.type = "WebhookUpdate" THEN WebhookUpdater(old, r)
    ELSE IF r.type = "ServerUpdate" THEN ServerUpdater(old, r)
    ELSE IF r.type = "ServerRoleUpdate" THEN RoleUpdater(old, r)
    ELSE UserUpdater(old, r)

\* (*Cache1).PartiallyUpdate and (*Cache2).PartiallyUpdate with the updater
\* of the frame r
Container1_PartiallyUpdate(c, id, r) ==
    IF c.isNil THEN {[panic |-> TRUE, c |-> c]}
    ELSE {[panic |-> FALSE,
           c |-> IF Cache1_PartiallyUpdateOk(c.Cache, id)
                 THEN [c EXCEPT !.Cache =
                          Cache1_PartiallyUpdateResult(@, id, Updater(c.Cache[id], r))]
                 ELSE c]}

Container2_PartiallyUpdate(c, parent, id, r) ==
    {[panic |-> FALSE,
      c |-> IF Cache2_PartiallyUpdateOk(c.Cache, parent, id)
            THEN [c EXCEPT !.Cache =
                     Cache2_PartiallyUpdateResult(@, parent, id, Updater(c.Cache[parent][id], r))]
            ELSE c]}

\* case "ChannelUpdate", "ServerUpdate", "UserUpdate": PartiallyUpdate on the
\* entity the frame names; case "ServerRoleUpdate": Roles.Set of the created
\* role, or PartiallyUpdate
PatchCalls(f) ==
    IF f.type = "ChannelUpdate" THEN {<<Call("Upd", "Channels", 0, f.ChannelID, f)>>}
    ELSE IF f.type = "ServerUpdate" THEN {<<Call("Upd", "Servers", 0, f.ServerID, f)>>}
    ELSE IF f.type = "UserUpdate" THEN {<<Call("Upd", "Users", 0, f.UserID, f)>>}
    ELSE IF IsCreated(f) THEN {<<Call("Set", "Roles", f.ServerID, f.RoleID, CreatedRole(f))>>}
    ELSE {<<Call("Upd", "Roles", f.ServerID, f.RoleID, f)>>}

\* case "WebhookCreate", "WebhookUpdate", "WebhookDelete": Set,
\* PartiallyUpdate and Del on socket.Cache.Webhooks
WebhookCalls(f) ==
    IF f.type = "WebhookCreate" THEN {<<Call("Set", "Webhooks", 0, f.Webhook.key, f.Webhook.val)>>}
    ELSE IF f.type = "WebhookUpdate" THEN {<<Call("Upd", "Webhooks", 0, f.ID, f)>>}
    ELSE {<<Call("Del", "Webhooks", 0, f.ID, 0)>>}

\* the sequences of calls the follow-up of a frame may make
FrameCalls(f) ==
    IF f.type = "Ready" THEN ReadyCalls(f)
    ELSE IF f.type \in {"WebhookCreate", "WebhookUpdate", "WebhookDelete"} THEN WebhookCalls(f)
    ELSE IF f.type = "ServerCreate" THEN ServerCreateCalls(f)
    ELSE IF f.type = "ServerDelete" THEN ServerDeleteCalls(f)
    ELSE IF f.type = "ServerRoleDelete" THEN ServerRoleDeleteCalls(f)
    ELSE IF f.type \in {"ChannelUpdate", "ServerUpdate", "ServerRoleUpdate", "UserUpdate"}
    THEN PatchCalls(f)
    ELSE {<<>>}

\* what a call does to its container
CallResult(c, call) ==
    IF IsCache2(call.k)
    THEN IF call.op = "Set" THEN Container2_Set(c, call.parent, Entity(call.key, call.val))
         ELSE IF call.op = "Del" THEN Container2_Del(c, call.parent, call.key)
         ELSE IF call.op = "Upd"
         THEN Container2_PartiallyUpdate(c, call.parent, call.key, call.val)
         ELSE Container2_DelGroup(c, call.parent)
    ELSE IF call.op = "Set" THEN Container1_Set(c, Entity(call.key, call.val))
         ELSE IF call.op = "Upd" THEN Container1_PartiallyUpdate(c, call.key, call.val)
         ELSE Container1_Del(c, call.key)

\* no frame is being processed and the process has not faulted
Idle == lastOp.ev \in {"none", "done"}

\* socket.process(p) of a frame f: the frame is decoded and, its channel
\* having no subscriber, EmitAndCall calls the follow-up
ProcessFrame(f) ==
    /\ Idle
    /\ \E calls \in FrameCalls(f) :
          lastOp' = [op |-> f.type, ev |-> IF calls = <<>> THEN "done" ELSE "running",
                     frame |-> f, todo |-> calls]
    /\ UNCHANGED <<c1, cfg1, c2, total, cfg2, Cache, sockVars>>

\* the next call of the running follow-up; a fault ends the process
FollowUpCall ==
    /\ lastOp.ev = "running"
    /\ LET call == Head(lastOp.todo)
       IN  \E r \in CallResult(Cache[call.k], call) :
              /\ Cache' = [Cache EXCEPT ![call.k] = r.c]
              /\ lastOp' = [lastOp EXCEPT
                               !.ev = IF r.panic THEN "panic"
                                      ELSE IF Tail(lastOp.todo) = <<>> THEN "done"
                                      ELSE "running",
                               !.todo = Tail(@)]
    /\ UNCHANGED <<c1, cfg1, c2, total, cfg2, sockVars>>

\* a client whose containers are all given, with the given caps
GivenCache(cap) ==
    [k \in Containers |-> IF IsCache2(k) THEN NewCache2(cap) ELSE NewCache1(cap)]

\* the state after NewSocket with the given configuration
InitEntities(config) ==
    /\ InitSocket
    /\ cfg1 = Cfg1Zero
    /\ c1 = EmptyMap
    /\ cfg2 = Cfg2Zero
    /\ c2 = EmptyMap
    /\ total = 0
    /\ lastOp = [op |-> "none", ev |-> "none", frame |-> [type |-> "none"], todo |-> <<>>]
    /\ Cache = NewSocketCache(config)

\* the projections of a server, a role and a channel with the given Flags
ServerVal(flags) == [Flags |-> flags, Name |-> "s", Description |-> "d"]
RoleVal(flags) == [Flags |-> flags, Name |-> "r", Colour |-> "c", Permissions |-> 0, Rank |-> 0]
ChannelVal(flags) == [Flags |-> flags, Name |-> "c", Description |-> "d"]

\* the projections of a user: one with every optional field set, one with none
UserVal(flags, full) ==
    IF full
    THEN [Flags |-> flags, Username |-> "u", DisplayName |-> "n", Avatar |-> "a",
          Status |-> [isNil |-> FALSE, Text |-> "t", Presence |-> "OptimizedPresenceOnline"],
          Profile |-> [isNil |-> FALSE, Content |-> "c", Background |-> "b"]]
    ELSE [Flags |-> flags, Username |-> "u", DisplayName |-> "", Avatar |-> "nil",
          Status |-> NilStatus, Profile |-> NilProfile]

\* a server as Ready and ServerCreate carry it: its roles are a map by role id
ServerOf(id, roles) ==
    [key |-> id, val |-> ServerVal(0), Roles |-> [r \in roles |-> RoleVal(0)]]

\* the frames about servers and their roles
ServerFrames ==
    {[type |-> "Ready", Users |-> <<>>, Servers |-> <<ServerOf(s, rs)>>, Channels |-> <<>>]
        : s \in ServerIds, rs \in SUBSET RoleIds}
    \cup {[type |-> "ServerCreate", Server |-> ServerOf(s, rs), Channels |-> <<>>]
            : s \in ServerIds, rs \in SUBSET RoleIds}
    \cup {[type |-> "ServerDelete", ServerID |-> s] : s \in ServerIds}
    \cup {[type |-> "ServerRoleDelete", ServerID |-> s, RoleID |-> r]
            : s \in ServerIds, r \in RoleIds}

ReadyOf(users, servers, channels) ==
    [type |-> "Ready", Users |-> users, Servers |-> servers, Channels |-> channels]

\* a PartialUser with no attribute, and the ones the frames carry
NoUserData ==
    [Badges |-> NoInt, Flags |-> NoInt, Online |-> NoBool, Username |-> NoStr,
     Status |-> NoStatus, Profile |-> NoProfile]
UserDatas ==
    {NoUserData,
     [NoUserData EXCEPT !.Online = Some(TRUE)],
     [NoUserData EXCEPT !.Status = [has |-> TRUE, Presence |-> "Busy", Text |-> ""]],
     [NoUserData EXCEPT !.Status = [has |-> TRUE, Presence |-> "", Text |-> "t2"]],
     [NoUserData EXCEPT !.Profile = [has |-> TRUE, Background |-> "b2"]]}

\* the clear lists the frames carry: none, one name, every name
UserClears == {{}, UserClearNames} \cup {{n} : n \in UserClearNames}

\* Ready with the user 5, the UserUpdate frames for that user, and one for
\* an unknown user
UserFrames ==
    {ReadyOf(<<Entity(5, UserVal(f, full))>>, <<>>, <<>>)
        : f \in {0, 2^FlagBits - 1}, full \in BOOLEAN}
    \cup {[type |-> "UserUpdate", UserID |-> 5, Data |-> d, Clear |-> cl]
            : d \in UserDatas, cl \in UserClears}
    \cup {[type |-> "UserUpdate", UserID |-> 6, Data |-> NoUserData, Clear |-> UserClearNames]}

\* a client with unbounded containers that receives Ready and UserUpdate
NextUsers ==
    \/ \E f \in UserFrames : ProcessFrame(f)
    \/ FollowUpCall

SpecUsers == InitEntities(CacheConfig(GivenCache(InfiniteCache))) /\ [][NextUsers]_vars

\* the attributes of the patches that carry booleans
NoChannelData == [Name |-> "", Description |-> NoStr, Active |-> NoBool, NSFW |-> NoBool]
NoServerData == [Name |-> NoStr, Analytics |-> NoBool, NSFW |-> NoBool]
NoRoleData ==
    [Name |-> "", Permissions |-> NoInt, Colour |-> "", Hoist |-> NoBool, Rank |-> NoInt]

\* Ready with a user, a server and its role and a channel whose bits are all
\* clear or all set, the patches of their boolean attributes, and patches
\* for entities that are not cached
FlagFrames ==
    {ReadyOf(<<Entity(5, UserVal(f, FALSE))>>,
             <<[key |-> 1, val |-> ServerVal(f), Roles |-> (3 :> RoleVal(f))]>>,
             <<Entity(7, ChannelVal(f))>>) : f \in {0, 2^FlagBits - 1}}
    \cup {[type |-> "ChannelUpdate", ChannelID |-> 7,
           Data |-> [NoChannelData EXCEPT !.Active = a, !.NSFW = n], Clear |-> {}]
            : a \in OptBools, n \in OptBools}
    \cup {[type |-> "ServerUpdate", ServerID |-> 1,
           Data |-> [NoServerData EXCEPT !.Analytics = a, !.NSFW = n], Clear |-> {}]
            : a \in OptBools, n \in OptBools}
    \cup {[type |-> "ServerRoleUpdate", ServerID |-> 1, RoleID |-> 3,
           Data |-> [NoRoleData EXCEPT !.Hoist = h], Clear |-> {}]
            : h \in OptBools}
    \cup {[type |-> "ServerRoleUpdate", ServerID |-> 1, RoleID |-> 3,
           Data |-> [Name |-> "r2", Permissions |-> Some(1), Colour |-> "", Hoist |-> Some(h),
                     Rank |-> Some(1)], Clear |-> {}]
            : h \in BOOLEAN}
    \cup {[type |-> "UserUpdate", UserID |-> 5,
           Data |-> [NoUserData EXCEPT !.Online = o, !.Badges = b, !.Flags = g], Clear |-> {}]
            : o \in OptBools, b \in {NoInt, Some(UserBadgesMask)},
              g \in {NoInt, Some(0)}}
    \cup {[type |-> "ChannelUpdate", ChannelID |-> 8,
           Data |-> [NoChannelData EXCEPT !.Active = Some(TRUE)], Clear |-> {}],
          [type |-> "ServerUpdate", ServerID |-> 2,
           Data |-> [NoServerData EXCEPT !.NSFW = Some(TRUE)], Clear |-> {}],
          [type |-> "ServerRoleUpdate", ServerID |-> 1, RoleID |-> 4,
           Data |-> [NoRoleData EXCEPT !.Hoist = Some(TRUE)], Clear |-> {}],
          [type |-> "UserUpdate", UserID |-> 6,
           Data |-> [NoUserData EXCEPT !.Online = Some(TRUE)], Clear |-> {}]}

\* a client with unbounded containers that receives entities and the patches
\* of their boolean attributes
NextFlags ==
    \/ \E f \in FlagFrames : ProcessFrame(f)
    \/ FollowUpCall

SpecFlags == InitEntities(CacheConfig(GivenCache(InfiniteCache))) /\ [][NextFlags]_vars

\* a client with unbounded containers that receives the frames about servers
\* and roles
NextServers ==
    \/ \E f \in ServerFrames : ProcessFrame(f)
    \/ FollowUpCall

SpecServers == InitEntities(CacheConfig(GivenCache(InfiniteCache))) /\ [][NextServers]_vars

\* the projection of a webhook
WebhookVal == [Name |-> "w", Avatar |-> "a", Permissions |-> 0]
WebhookIds == {7, 8}

\* a PartialWebhook with no attribute, and the ones the frames carry
NoWebhookData == [Name |-> "", Avatar |-> "nil", Permissions |-> NoInt]
WebhookDatas ==
    {NoWebhookData,
     [NoWebhookData EXCEPT !.Name = "w2"],
     [NoWebhookData EXCEPT !.Avatar = "a2"],
     [NoWebhookData EXCEPT !.Permissions = Some(1)]}

\* the frames about webhooks, and Ready with one user
WebhookFrames ==
    {[type |-> "WebhookCreate", Webhook |-> Entity(w, WebhookVal)] : w \in WebhookIds}
    \cup {[type |-> "WebhookUpdate", ID |-> w, Data |-> d, Remove |-> rm]
            : w \in WebhookIds, d \in WebhookDatas, rm \in {{}, {"Avatar"}}}
    \cup {[type |-> "WebhookDelete", ID |-> w] : w \in WebhookIds}
    \cup {ReadyOf(<<Entity(5, UserVal(0, FALSE))>>, <<>>, <<>>)}

\* the cache configurations given to NewSocket: none, &GenericCache{}, one
\* with Users only, and ones with Webhooks only, its map not made or made
CacheConfigs ==
    {NoCacheConfig,
     CacheConfig(GenericCacheZero),
     CacheConfig([GenericCacheZero EXCEPT !["Users"] = NewCache1(InfiniteCache)]),
     CacheConfig([GenericCacheZero EXCEPT !["Webhooks"] = NewCache1(InfiniteCache)]),
     CacheConfig([GenericCacheZero EXCEPT !["Webhooks"] = Cache_init(NewCache1(InfiniteCache))])}

\* a client made with one of the configurations that receives the frames
\* about webhooks
NextWebhooks ==
    \/ \E f \in WebhookFrames : ProcessFrame(f)
    \/ FollowUpCall

SpecWebhooks == (\E config \in CacheConfigs : InitEntities(config)) /\ [][NextWebhooks]_vars

(***************************************************************************)
(* Claims about the cache engine.                                          *)
(***************************************************************************)
\* C7: a Cache1 with MaxSize = N > 0 never holds more than N entries, after
\* every Set, Del and PartiallyUpdate, whatever DontInsertIfOverflow and the
\* admission predicate are.
C7_Cache1SizeBound ==
    cfg1.MaxSize > 0 => Cache1_Size(c1) <= cfg1.MaxSize

\* a full bounded Cache1 just took a Set that evicted an entry
C7_Witness ==
    /\ cfg1.MaxSize > 0
    /\ lastOp = [op |-> "Set1", ev |-> "entry"]
    /\ Cache1_Size(c1) = cfg1.MaxSize

\* C8: a Cache2 configured with only TotalMaxSize = N > 0 never holds more
\* than N entries.
C8_Cache2TotalBound ==
    (cfg2.MaxSize1 = 0 /\ cfg2.MaxSize2 = 0 /\ cfg2.TotalMaxSize > 0)
        => Cache2_Size(total) <= cfg2.TotalMaxSize

\* C9: Cache2.Size() is the number of entries reachable through Get, which is
\* the sum of the sizes of the parent groups, and it is never negative.
C9_Cache2SizeExact ==
    /\ Cache2_Size(total) = Cardinality(Reachable2(c2))
    /\ Cache2_Size(total) =
          Cardinality({pk \in Parents \X Keys :
                          pk[1] \in DOMAIN c2 /\ pk[2] \in DOMAIN c2[pk[1]]})
    /\ Cache2_Size(total) >= 0

\* a Set has just evicted a whole parent group and entries remain
C9_Witness ==
    /\ lastOp = [op |-> "Set2", ev |-> "group"]
    /\ Cache2_Size(total) >= 1

\* C10: a container with no capacity configured holds nothing: Size() is 0
\* and Get finds no key, whatever Sets were made.
C10_UnconfiguredEmpty ==
    /\ cfg1.MaxSize = 0 =>
          /\ Cache1_Size(c1) = 0
          /\ \A k \in Keys : Cache1_Get(c1, k) = 0
    /\ (cfg2.MaxSize1 = 0 /\ cfg2.MaxSize2 = 0 /\ cfg2.TotalMaxSize = 0) =>
          /\ Cache2_Size(total) = 0
          /\ \A p \in Parents, k \in Keys : Cache2_Get(c2, p, k) = 0

\* both containers are unconfigured and a Set on the Cache2 was just refused
C10_Witness ==
    /\ cfg1.MaxSize = 0
    /\ cfg2.MaxSize1 = 0 /\ cfg2.MaxSize2 = 0 /\ cfg2.TotalMaxSize = 0
    /\ lastOp = [op |-> "Set2", ev |-> "rejected"]

(***************************************************************************)
(* Claims about the calls of the cache engine.                             *)
(***************************************************************************)
\* C11: PartiallyUpdate of a key that is not present (or whose parent group
\* is not present) does not invoke the mutator and leaves the container as
\* it was: the same entries, the same groups, the same Size and GroupsCount.
C11_PatchAbsentNoEffect ==
    [][/\ \A k \in Keys, v \in Vals :
            (Cache1_PartiallyUpdate(k, v) /\ k \notin DOMAIN c1)
                => (c1' = c1 /\ lastOp'.ev # "updated")
       /\ \A p \in Parents, k \in Keys, v \in Vals :
            (Cache2_PartiallyUpdate(p, k, v)
                /\ (p \notin DOMAIN c2 \/ k \notin DOMAIN c2[p]))
                => (c2' = c2 /\ total' = total /\ lastOp'.ev # "updated")]_vars

\* a Cache2 holding entries took a PartiallyUpdate that found nothing
C11_Witness ==
    /\ lastOp = [op |-> "Upd2", ev |-> "none"]
    /\ Cache2_Size(total) >= 1
    /\ Cache2_GroupsCount(c2) = 1

\* C12: DelGroup(parent) on a cache holding the group removes exactly that
\* group: GroupsCount drops by 1, Size drops by the number of members the
\* group had, every entry of every other parent is still returned by Get;
\* when the parent is absent nothing changes.
C12_DelGroupExact ==
    [][\A p \in Parents :
        Cache2_DelGroup(p) =>
            IF p \in DOMAIN c2
            THEN /\ DOMAIN c2' = (DOMAIN c2) \ {p}
                 /\ Cache2_GroupsCount(c2') = Cache2_GroupsCount(c2) - 1
                 /\ Cache2_Size(total') = Cache2_Size(total) - Cardinality(DOMAIN c2[p])
                 /\ \A q \in Parents \ {p}, k \in Keys :
                        Cache2_Get(c2', q, k) = Cache2_Get(c2, q, k)
            ELSE c2' = c2 /\ total' = total]_vars

\* a DelGroup removed a group and left the other group with its entries
C12_Witness ==
    /\ lastOp = [op |-> "DelGroup2", ev |-> "group"]
    /\ Cache2_GroupsCount(c2) = 1
    /\ Cache2_Size(total) = NumKeys

\* C13: when a Checker is configured and returns false for an entity, Set of
\* that entity changes nothing (no insertion, no eviction, the same counts),
\* under every configuration that enables caching.
C13_VetoNoEffect ==
    [][/\ \A k \in Keys, v \in Vals :
            (Cache1_Set(k, v) /\ cfg1.MaxSize # 0 /\ cfg1.Checker # "nil"
                /\ ~CanCache(cfg1.Checker, [key |-> k, val |-> v]))
                => c1' = c1
       /\ \A p \in Parents, k \in Keys, v \in Vals :
            (Cache2_Set(p, k, v) /\ cfg2 # Cfg2Zero /\ cfg2.Checker # "nil"
                /\ ~CanCache(cfg2.Checker, [key |-> k, val |-> v]))
                => (c2' = c2 /\ total' = total)]_vars

\* a Set of a new key would exceed a configured cap of the Cache2
Overflows2(p, k) ==
    /\ Cache2_Get(c2, p, k) = 0
    /\ \/ cfg2.TotalMaxSize > 0 /\ Cache2_Size(total) >= cfg2.TotalMaxSize
       \/ cfg2.MaxSize2 > 0 /\ p \in DOMAIN c2 /\ Cardinality(DOMAIN c2[p]) >= cfg2.MaxSize2
       \/ cfg2.MaxSize1 > 0 /\ p \notin DOMAIN c2
            /\ Cache2_GroupsCount(c2) >= cfg2.MaxSize1

\* C14: with DontInsertIfOverflow set, a Set that would exceed a configured
\* cap (MaxSize of a Cache1; the total, the per-parent or the max-groups cap
\* of a Cache2) leaves the container unchanged: nothing evicted, nothing
\* inserted.
C14_RejectOnOverflow ==
    [][/\ \A k \in Keys, v \in Vals :
            (Cache1_Set(k, v) /\ cfg1.DontInsertIfOverflow /\ cfg1.MaxSize > 0
                /\ k \notin DOMAIN c1 /\ Cache1_Size(c1) >= cfg1.MaxSize)
                => c1' = c1
       /\ \A p \in Parents, k \in Keys, v \in Vals :
            (Cache2_Set(p, k, v) /\ cfg2.DontInsertIfOverflow /\ Overflows2(p, k))
                => (c2' = c2 /\ total' = total)]_vars

\* C15: with a per-parent cap MaxSize2 = M > 0, whatever the other limits,
\* no parent group holds more than M entries.
C15_GroupCap ==
    cfg2.MaxSize2 > 0 =>
        \A p \in DOMAIN c2 : Cardinality(DOMAIN c2[p]) <= cfg2.MaxSize2

\* C16: a Set of a key already present, admitted by the predicate, evicts
\* nothing: afterwards the key maps to the new entity, every other entry is
\* as before and Size is unchanged.
C16_OverwriteKeepsOthers ==
    [][/\ \A k \in Keys, v \in Vals :
            (Cache1_Set(k, v) /\ k \in DOMAIN c1
                /\ CanCache(cfg1.Checker, [key |-> k, val |-> v]))
                => c1' = [c1 EXCEPT ![k] = v]
       /\ \A p \in Parents, k \in Keys, v \in Vals :
            (Cache2_Set(p, k, v) /\ Cache2_Get(c2, p, k) # 0
                /\ CanCache(cfg2.Checker, [key |-> k, val |-> v]))
                => (c2' = [c2 EXCEPT ![p][k] = v] /\ total' = total)]_vars

\* a Set(p, k, v) step evicted exactly one whole group, lowered Size by its
\* member count, and the cache then holds the new entity
EvictsOneGroup(p, k, v) ==
    \E g \in DOMAIN c2 :
        /\ DOMAIN c2' = ((DOMAIN c2) \ {g}) \cup {p}
        /\ \A q \in (DOMAIN c2) \ {g} : c2'[q] = c2[q]
        /\ Cache2_Size(total') = Cache2_Size(total) - Cardinality(DOMAIN c2[g]) + 1
        /\ Cache2_Get(c2', p, k) = v

\* C17 as stated: with a max-groups cap MaxSize1 = G > 0, GroupsCount never
\* exceeds G, and every Set for a new parent while G groups exist evicts
\* exactly one whole group, lowers Size by its member count and holds the
\* new entity.
C17_GroupsCapAnySet ==
    /\ [](cfg2.MaxSize1 > 0 => Cache2_GroupsCount(c2) <= cfg2.MaxSize1)
    /\ [][\A p \in Parents, k \in Keys, v \in Vals :
            (Cache2_Set(p, k, v) /\ cfg2.MaxSize1 > 0 /\ p \notin DOMAIN c2
                /\ Cache2_GroupsCount(c2) = cfg2.MaxSize1)
                => EvictsOneGroup(p, k, v)]_vars

\* C17: with a max-groups cap MaxSize1 = G > 0, GroupsCount never exceeds G,
\* and a Set for a new parent while G groups exist, unless the admission
\* predicate vetoes the entity, evicts exactly one whole group, lowers Size
\* by its member count and holds the new entity.
C17_GroupsCap ==
    /\ [](cfg2.MaxSize1 > 0 => Cache2_GroupsCount(c2) <= cfg2.MaxSize1)
    /\ [][\A p \in Parents, k \in Keys, v \in Vals :
            (Cache2_Set(p, k, v) /\ cfg2.MaxSize1 > 0 /\ p \notin DOMAIN c2
                /\ Cache2_GroupsCount(c2) = cfg2.MaxSize1
                /\ CanCache(cfg2.Checker, [key |-> k, val |-> v]))
                => EvictsOneGroup(p, k, v)]_vars

\* a Set for a new parent evicted the only group of a cache capped at one
\* group, a group of two entries
C17_Witness ==
    /\ cfg2.MaxSize1 = 1
    /\ lastOp = [op |-> "Set2", ev |-> "group"]
    /\ Cache2_GroupsCount(c2) = 1
    /\ Cache2_Size(total) = 1

\* C18: an unlimited container (Cache1 with MaxSize = -1; Cache2 with some
\* limit -1 and none positive) neither evicts nor rejects: after a Set the
\* predicate does not veto, the entity is returned by Get and every other
\* entry is still there.
C18_UnlimitedKeepsAll ==
    [][/\ \A k \in Keys, v \in Vals :
            (Cache1_Set(k, v) /\ cfg1.MaxSize = InfiniteCache
                /\ CanCache(cfg1.Checker, [key |-> k, val |-> v]))
                => c1' = Put(c1, k, v)
       /\ \A p \in Parents, k \in Keys, v \in Vals :
            (Cache2_Set(p, k, v)
                /\ InfiniteCache \in {cfg2.MaxSize1, cfg2.MaxSize2, cfg2.TotalMaxSize}
                /\ cfg2.MaxSize1 <= 0 /\ cfg2.MaxSize2 <= 0 /\ cfg2.TotalMaxSize <= 0
                /\ CanCache(cfg2.Checker, [key |-> k, val |-> v]))
                => /\ Cache2_Get(c2', p, k) = v
                   /\ \A q \in Parents, j \in Keys :
                        <<q, j>> # <<p, k>> => Cache2_Get(c2', q, j) = Cache2_Get(c2, q, j)]_vars

(***************************************************************************)
(* Claims about the dispatch bus.                                          *)
(***************************************************************************)
\* C19: in an Emit, a callback that deletes its own subscription does not
\* stop the emission: no callback runs twice, and when the Emit has returned
\* every callback registered when it began and not deleted while it ran has
\* run exactly once; a callback whose subscription was removed before the
\* Emit began does not run in it.
C19_SelfDeleteSafe ==
    /\ \A i \in 1..MaxSubs : hist.bus.calls[i] <= 1
    /\ \A i \in hist.bus.dead0 : hist.bus.calls[i] = 0
    /\ thr[User].pc = "start" =>
            \A i \in hist.bus.start \ hist.bus.deleted : hist.bus.calls[i] = 1

\* A, B, C were registered, B deleted itself in the first Emit, and the
\* second Emit has run A and C once each and not B
C19_Witness ==
    /\ thr[User].pc = "start"
    /\ hist.bus.emits = 2
    /\ hist.bus.start = {1, 3}
    /\ hist.bus.dead0 = {2}
    /\ hist.bus.calls = [i \in 1..MaxSubs |-> IF i = 2 THEN 0 ELSE 1]

\* C20: Delete of a subscription that is already removed, by an earlier
\* Delete or by Override, changes nothing: every registration of the channel
\* stays in place.
C20_DeleteIdempotent ==
    [][\A i \in 1..MaxSubs :
        (BusDelete(i) /\ i \in hist.bus.dead) => ls' = ls]_vars

\* after an Override, a subscription it removed was deleted again and the
\* registration made by Override is still there and ran in a later Emit
C20_Witness ==
    /\ thr[User].pc = "start"
    /\ hist.bus.dead = {1, 2}
    /\ DOMAIN ls[BusChan] = {3}
    /\ hist.bus.start = {3}
    /\ hist.bus.calls[3] = 1

(***************************************************************************)
(* Claims about EmitAndCall and the order of cache effects.                *)
(***************************************************************************)
\* C21: every EmitAndCall(value, followUp) runs followUp(value) exactly once:
\* within the call when the channel has no subscriber (the read loop is back
\* at the head of its loop with the follow-up applied and no goroutine was
\* started), and eventually, under fair scheduling, in the goroutine the
\* call started when it has subscribers.
C21_FollowUpRuns ==
    /\ [][\A l \in DOMAIN thr :
            (ReadTyped(l) /\ DOMAIN ls[ChannelOf(Head(conns[thr[l].aux].inbox))] = {})
                => /\ gors' = gors
                   /\ \E r \in FollowUp(Head(conns[thr[l].aux].inbox)) :
                          c1' = r.c1 /\ c2' = r.c2 /\ total' = r.total]_vars
    /\ [][\A n \in DOMAIN gors : gors[n].fdone => gors'[n].fdone]_vars
    /\ \A n \in 1..(MaxFrames + 1) :
            (Len(gors) >= n) ~> (Len(gors) >= n /\ gors[n].fdone)

\* every frame the server sent has been read and nothing is left to do: the
\* read loop waits for the next frame, every goroutine of EmitAndCall is done
Quiescent ==
    /\ \A c \in DOMAIN conns : conns[c].inbox = <<>>
    /\ \A t \in DOMAIN thr :
          /\ t[1] = "L" => (thr[t].pc = "read" /\ thr[t].bulk = <<>>)
          /\ t[1] = "G" => thr[t].pc = "done"

\* C22: after the frames Ready{u1}, Message{m1 in c1}, MessageUpdate{m1},
\* MessageDelete{m1} were fed in this order and all processing has finished,
\* Messages.Get(c1, m1) finds nothing and Users.Get(u1) returns the entry
\* Ready stored, whatever the subscribers and the scheduling.
C22_ReplayResult ==
    (hist.fed = Script /\ Quiescent)
        => /\ Cache2_Get(c2, ChanC1, MsgM1) = 0
           /\ Cache1_Get(c1, UserU1) = ContentHi

\* C24: the follow-ups of successive frames, and of the sub-frames of a Bulk
\* frame, run in arrival order; after a Bulk of [Message m1, MessageDelete
\* m1] has been processed the cache does not hold m1.
C24_ArrivalOrder ==
    LET arrived == IF hist.fed = <<"Bulk">> THEN BulkFrames ELSE hist.fed
    IN  /\ Len(hist.app) <= Len(arrived)
        /\ \A k \in 1..Len(hist.app) : k <= Len(arrived) => hist.app[k] = arrived[k]
        /\ (hist.fed = <<"Bulk">> /\ Quiescent) => Cache2_Get(c2, ChanC1, MsgM1) = 0

\* C25: no two execution contexts are inside cache-mutating follow-ups on
\* the same container at the same time.
C25_OneWriter ==
    \A c \in {"Users", "Messages"} : Cardinality(Mutating(c)) <= 1

(***************************************************************************)
(* Claims about Close, the heartbeat and the reconnects.                   *)
(***************************************************************************)
\* C23: a call of Close on an opened client sets the closed flag and then
\* terminates: the caller, once inside socket.close(), gets past the signal
\* to the heartbeat loop, writes the close frame and returns.
C23_CloseTerminates ==
    /\ [][UserClose => closed']_vars
    /\ (thr[User].pc = "c_send") ~> (thr[User].pc = "done")

\* C26: no two writes to the transport connection overlap: of the Ping of
\* the heartbeat, BeginTyping and the close frame of Close, at most one is
\* inside WriteMessage at any time.
C26_WritesExclusive ==
    Cardinality(Writers) <= 1

\* C27: a frame that cannot be decoded is dropped: processing it hands the
\* decode error to the generic error channel, leaves the cache as it was and
\* stops no goroutine, and the read loop is back at the head of its loop.
C27_MalformedDropped ==
    [][\A l \in DOMAIN thr :
        ReadMalformed(l) =>
            /\ Len(hist'.pub) = Len(hist.pub) + 1
            /\ UNCHANGED cacheVars
            /\ \A u \in DOMAIN thr' : thr'[u].pc # "crashed"
            /\ thr'[l].pc = "top"]_vars

\* C28: at a heartbeat tick, when the last acknowledgment is older than the
\* last probe the heartbeat loop ends, writes nothing, records nothing and
\* starts no Open and no goroutine; otherwise it records the send time and
\* writes one Ping (going back to its select), or, the write having failed,
\* ends.
C28_HeartbeatTick ==
    [][\A p \in DOMAIN thr :
        PingerTickWithin(p, MaxBeats) =>
            IF lastPingRes < lastPingReq
            THEN /\ thr'[p].pc = "done"
                 /\ UNCHANGED <<conns, lastPingReq, lastPingRes, opens, Connection>>
                 /\ DOMAIN thr' = DOMAIN thr
            ELSE /\ now' > now
                 /\ lastPingReq' = now'
                 /\ \/ /\ conns' = [conns EXCEPT ![Connection].pings = @ + 1]
                       /\ thr'[p].pc = "select"
                    \/ /\ conns' = conns
                       /\ thr'[p].pc # "select"]_vars

\* a heartbeat sent a probe, was acknowledged, sent a second probe and, that
\* one not acknowledged, has ended at the third tick
C28_Witness ==
    /\ cnt.ticks = 3
    /\ 0 < lastPingRes /\ lastPingRes < lastPingReq
    /\ \E p \in DOMAIN thr : p[1] = "P" /\ thr[p].pc = "done" /\ thr[p].note = "stale"

\* C29: on every reconnect, by the close handler or by the read loop after a
\* read error, both heartbeat timestamps are unset when the Open of the
\* reconnect starts the heartbeat loop of the new connection.
C29_TimestampsReset ==
    [][\A o \in DOMAIN opens :
        (OpenAuth(o) /\ opens[o].kind # "user" /\ tickers' # tickers)
            => (lastPingReq = 0 /\ lastPingRes = 0)]_vars

\* C30: the closed flag is set only if the user has called Close or
\* CloseWithCode, and once set it stays set.
C30_ClosedMeansUserClosed ==
    /\ [](closed => hist.userClosed)
    /\ [][closed => closed']_vars

\* the heartbeat loops that have not returned, and the read loops that are
\* at the head of the loop or inside ReadMessage
Heartbeats == {p \in DOMAIN thr : p[1] = "P" /\ thr[p].pc # "done"}
ReadLoops == {l \in DOMAIN thr : l[1] = "L" /\ thr[l].pc \in {"top", "read"}}

\* C31: at any time at most one heartbeat loop and at most one read loop are
\* running: a reconnect never leaves the heartbeat loop of the previous
\* connection running beside the one started for the new connection.
C31_OneLoopEach ==
    /\ Cardinality(Heartbeats) <= 1
    /\ Cardinality(ReadLoops) <= 1

(***************************************************************************)
(* Claims about the cache steps of the frames.                             *)
(***************************************************************************)
\* the containers other than those named are as they were
OthersKept(names) == \A k \in Containers \ names : Cache'[k] = Cache[k]

\* C32: processing ServerDelete{S} removes the role group of S, the total of
\* Roles going down by the size of that group and its count of groups by
\* one, while the server entry is still cached; then it removes the server
\* entry; the other role groups, the other servers and the other containers
\* are as they were, and no call faults.
C32_ServerDeleteCascade ==
    [][(FollowUpCall /\ lastOp.op = "ServerDelete") =>
        LET S == lastOp.frame.ServerID
            R == Cache.Roles
            R2 == Cache'.Roles
            had == S \in DOMAIN R.Cache
        IN  /\ lastOp'.ev # "panic"
            /\ S \notin DOMAIN R2.Cache
            /\ DOMAIN R2.Cache = DOMAIN R.Cache \ {S}
            /\ \A p \in DOMAIN R2.Cache : R2.Cache[p] = R.Cache[p]
            /\ Cache2_Size(R2.total) = Cache2_Size(R.total) - (IF had THEN Len0(R.Cache[S]) ELSE 0)
            /\ Cache2_GroupsCount(R2.Cache)
                  = Cache2_GroupsCount(R.Cache) - (IF had THEN 1 ELSE 0)
            /\ OthersKept({"Roles", "Servers"})
            /\ IF lastOp'.ev = "running"
               THEN Cache'.Servers = Cache.Servers
               ELSE /\ S \notin DOMAIN Cache'.Servers.Cache
                    /\ DOMAIN Cache'.Servers.Cache = DOMAIN Cache.Servers.Cache \ {S}
                    /\ \A s \in DOMAIN Cache'.Servers.Cache :
                          Cache'.Servers.Cache[s] = Cache.Servers.Cache[s]
                    /\ R2 = R]_vars

\* the role group of server 1 was removed and its entry is still cached,
\* beside server 2 and its two roles
C32_Witness ==
    /\ lastOp.op = "ServerDelete" /\ lastOp.ev = "running"
    /\ lastOp.frame.ServerID = 1
    /\ DOMAIN Cache.Servers.Cache = {1, 2}
    /\ DOMAIN Cache.Roles.Cache = {2}
    /\ DOMAIN Cache.Roles.Cache[2] = RoleIds
    /\ Cache.Roles.total = 2

\* C33: once ServerCreate for a server S was processed, every role R of S is
\* cached under the parent S with its projection, and the removal of the
\* role group by a later ServerDelete{S} leaves no role under S.
C33_CreatedRolesScoped ==
    /\ [][(FollowUpCall /\ lastOp.op = "ServerCreate" /\ lastOp'.ev = "done") =>
            LET s == lastOp.frame.Server
            IN  \A r \in DOMAIN s.Roles :
                    /\ s.key \in DOMAIN Cache'.Roles.Cache
                    /\ r \in DOMAIN Cache'.Roles.Cache[s.key]
                    /\ Cache'.Roles.Cache[s.key][r] = s.Roles[r]]_vars
    /\ [][(FollowUpCall /\ lastOp.op = "ServerDelete" /\ lastOp'.ev = "running") =>
            lastOp.frame.ServerID \notin DOMAIN Cache'.Roles.Cache]_vars

\* the entity a patch call is about, before and after the call (the call
\* is the head of lastOp.todo and the entity is cached)
PatchCall == Head(lastOp.todo)
PatchHits ==
    /\ lastOp.ev = "running"
    /\ PatchCall.op = "Upd"
    /\ IF IsCache2(PatchCall.k)
       THEN Cache2_PartiallyUpdateOk(Cache[PatchCall.k].Cache, PatchCall.parent, PatchCall.key)
       ELSE Cache1_PartiallyUpdateOk(Cache[PatchCall.k].Cache, PatchCall.key)
Patched(gc) ==
    IF IsCache2(PatchCall.k) THEN gc[PatchCall.k].Cache[PatchCall.parent][PatchCall.key]
    ELSE gc[PatchCall.k].Cache[PatchCall.key]

\* C34: a UserUpdate applied to a cached user resets every field its clear
\* list names, by the documented names: Avatar, StatusText, StatusPresence,
\* ProfileContent, ProfileBackground and DisplayName.
C34_ClearResets ==
    [][(FollowUpCall /\ PatchHits /\ lastOp.op = "UserUpdate") =>
        LET cl == lastOp.frame.Clear
            u == Patched(Cache')
        IN  /\ "Avatar" \in cl => u.Avatar = "nil"
            /\ "StatusText" \in cl => (u.Status.isNil \/ u.Status.Text = "")
            /\ "StatusPresence" \in cl =>
                  (u.Status.isNil \/ u.Status.Presence = "OptimizedPresenceInvisible")
            /\ "ProfileContent" \in cl => (u.Profile.isNil \/ u.Profile.Content = "")
            /\ "ProfileBackground" \in cl => (u.Profile.isNil \/ u.Profile.Background = "nil")
            /\ "DisplayName" \in cl => u.DisplayName = ""]_vars

\* the boolean attributes of a patch frame with the bit of each, and the
\* bits its other attributes address
BoolAttrs(r) ==
    IF r.type = "ChannelUpdate"
    THEN {<<OptimizedChannelFlagActive, r.Data.Active>>, <<OptimizedChannelFlagNSFW, r.Data.NSFW>>}
    ELSE IF r.type = "ServerUpdate"
    THEN {<<OptimizedServerFlagsAnalytics, r.Data.Analytics>>,
          <<OptimizedServerFlagsNSFW, r.Data.NSFW>>}
    ELSE IF r.type = "ServerRoleUpdate" THEN {<<OptimizedRoleFlagsHoist, r.Data.Hoist>>}
    ELSE {<<OptimizedUserFlagsOnline, r.Data.Online>>}
OtherMasks(r) ==
    IF r.type = "UserUpdate"
    THEN (IF r.Data.Badges.has THEN {UserBadgesMask} ELSE {})
         \cup (IF r.Data.Flags.has THEN {UserFlagsMask} ELSE {})
    ELSE {}

\* C35: a patch applied to a cached channel, server, role or user sets the
\* bit of each boolean attribute it carries when the value is true and
\* clears it when false, and every bit that no attribute of the patch
\* addresses keeps its value; a patch without attributes changes no bit.
C35_BitIsolation ==
    [][(FollowUpCall /\ PatchHits) =>
        LET r == lastOp.frame
            old == Patched(Cache).Flags
            new == Patched(Cache').Flags
        IN  /\ \A a \in BoolAttrs(r) :
                  a[2].has => (BitOr(new, a[1]) = new) = a[2].v
            /\ \A i \in 0..(FlagBits - 1) :
                  (/\ \A a \in BoolAttrs(r) : a[2].has => a[1] # 2^i
                   /\ 2^i \notin OtherMasks(r))
                     => Bit(new, i) = Bit(old, i)]_vars

\* a channel whose three bits were set was patched with active = false and
\* no NSFW attribute: the other two bits are still set
C35_Witness ==
    /\ lastOp.op = "ChannelUpdate" /\ lastOp.ev = "done"
    /\ lastOp.frame.Data.Active = Some(FALSE)
    /\ ~lastOp.frame.Data.NSFW.has
    /\ lastOp.frame.ChannelID \in DOMAIN Cache.Channels.Cache
    /\ Cache.Channels.Cache[lastOp.frame.ChannelID].Flags
          = 2^FlagBits - 1 - OptimizedChannelFlagActive

(***************************************************************************)
(* Claims about subscription identifiers.                                  *)
(***************************************************************************)
\* C36: within a channel the identifier counter never goes down, every
\* registration made by Listen or Override gets an identifier above every
\* one issued before, no identifier of a removed subscription is registered
\* again, and Delete through a handle removes the registration of that
\* identifier and no other.
C36_IdsNeverReused ==
    /\ [](DOMAIN ls[BusChan] \subseteq 1..ecid[BusChan])
    /\ [](hist.bus.dead \cap DOMAIN ls[BusChan] = {})
    /\ [][ecid'[BusChan] >= ecid[BusChan]]_vars
    /\ [][\A k \in DOMAIN ls'[BusChan] \ DOMAIN ls[BusChan] :
            k > ecid[BusChan] /\ k = ecid'[BusChan]]_vars
    /\ [][\A i \in 1..MaxSubs :
            BusDelete(i) => /\ DOMAIN ls'[BusChan] = DOMAIN ls[BusChan] \ {i}
                            /\ \A k \in DOMAIN ls'[BusChan] : ls'[BusChan][k] = ls[BusChan][k]]_vars

\* 1 and 2 were registered, 1 was deleted, and the next registration got 3
C36_Witness ==
    /\ thr[User].pc = "start"
    /\ ecid[BusChan] = 3
    /\ hist.bus.dead = {1}
    /\ DOMAIN ls[BusChan] = {2, 3}

(***************************************************************************)
(* Claims about the registration maps under concurrency.                   *)
(***************************************************************************)
\* the goroutines inside the range of Emit over the registrations of ch:
\* before a callback, or inside one that is blocked sending
Ranging(ch) == {t \in DOMAIN thr : thr[t].pc \in {"emit", "send"} /\ thr[t].em.ch = ch}

\* C37: no step of Listen, Delete or Override changes the registrations of
\* a channel while a goroutine is inside the range of Emit over them.
C37_NoMutationDuringEmit ==
    [][\A ch \in Channels : ls'[ch] # ls[ch] => Ranging(ch) = {}]_vars

(***************************************************************************)
(* Claims about the containers of the client's cache.                      *)
(***************************************************************************)
\* the container is a non-nil pointer and its map is made
Usable(c) == c.isNil = FALSE /\ c.mapNil = FALSE

\* C38: after NewSocket every container of socket.Cache, Webhooks included,
\* is non-nil with a made, empty map, they stay usable, and no cache step
\* of a frame faults.
C38_ContainersUsable ==
    /\ \A k \in Containers : Usable(Cache[k])
    /\ lastOp.op = "none" => \A k \in Containers : Cache[k].Cache = EmptyMap
    /\ lastOp.ev # "panic"

\* the cache step of a Webhook frame faulted
C38_Fault ==
    /\ lastOp.ev = "panic"
    /\ lastOp.op \in {"WebhookCreate", "WebhookUpdate", "WebhookDelete"}

\* C39: every parent group present in a Cache2 has at least one entry, so
\* GroupsCount() is the number of parents that have an entry.
C39_GroupsNonEmpty ==
    /\ \A p \in DOMAIN c2 : DOMAIN c2[p] # {}
    /\ Cache2_GroupsCount(c2) =
            Cardinality({p \in Parents : \E k \in Keys : Cache2_Get(c2, p, k) # 0})

(***************************************************************************)
(* Claims about the latency.                                               *)
(***************************************************************************)
\* C40: Latency() is never negative, and it is zero while either heartbeat
\* timestamp is unset.
C40_LatencyNonNegative ==
    /\ Latency >= 0
    /\ (lastPingReq = 0 \/ lastPingRes = 0) => Latency = 0

====
